---- MODULE Spec2Model ----
(***************************************************************************)
(* Plugin lifecycle engine of packages/aiCore: PluginManager (plugin       *)
(* sorting and the hook executors), PluginEngine (executeWithPlugins,     *)
(* executeStreamWithPlugins, executeImageWithPlugins and the bound         *)
(* context.recursiveCall), and the recursive follow-up call issued by the  *)
(* prompt-tool-use stream transform.                                       *)
(***************************************************************************)
EXTENDS Integers, Sequences, FiniteSets, TLC

VARIABLES
    basePlugins,   \* PluginEngine.basePlugins
    stack,         \* call frames of execute*WithPlugins, innermost last
    ctx,           \* the AiRequestContext shared by all frames of the request
    outcome,       \* what the top-level caller has observed so far
    streams,       \* streams being consumed, outermost first (piped into one another)
    nested,        \* recursive frames entered during the request
    depthErrors,   \* RecursiveDepthErrors thrown during the request
    plugins,       \* PluginManager.plugins of a manager mutated by use / remove
    registered,    \* the plugins given to that manager and not removed, in
                   \* the order they were given
    usage,         \* a usage record under accumulateUsage and what was added to it
    pipes,         \* the prompt-tool-use transforms of the streams being piped,
                   \* outermost first
    out,           \* the chunks the consumer of the top-level stream has received
    fed,           \* the chunks the providers have produced so far
    extractor,     \* a TagExtractor being fed a text fragment by fragment
    parse,         \* a step text given to defaultParseToolUse and what it returned
    hookCalls,     \* the context.recursiveCall invocations of one frame's hooks
    promptPlugin   \* a prompt-tool-use plugin created with a config, and the
                   \* params its transformParams was given and returned

vars == <<basePlugins, stack, ctx, outcome, streams, nested, depthErrors,
          plugins, registered, usage, pipes, out, fed, extractor, parse,
          hookCalls, promptPlugin>>

engineVars == <<basePlugins, stack, ctx, outcome, streams, nested, depthErrors>>
managerVars == <<plugins, registered>>
usageVars == <<usage>>
transformVars == <<pipes, out, fed>>
toolVars == <<extractor, parse>>
callVars == <<hookCalls>>
pluginVars == <<promptPlugin>>

-----------------------------------------------------------------------------
(* Bounds of the model *)

MaxPlugins == 2
MaxNested == 12
MaxRegistered == 4
MaxSources == 2
MaxSteps == 3
MaxBlocks == 3
MaxText == 5
MaxHooks == 3
MaxHookCalls == 2

(* Program constants *)

DefaultMaxRecursiveDepth == 10

-----------------------------------------------------------------------------
(* Values *)

EmptyFn == [k \in {} |-> 0]

Num(n) == [t |-> "num", n |-> n, o |-> EmptyFn]
Obj(o) == [t |-> "obj", n |-> 0, o |-> o]
UndefVal == [t |-> "undef", n |-> 0, o |-> EmptyFn]

\* a merge in which the keys already present win: not what the spread does
SpreadKeepsOld(a, b) ==
    [k \in (DOMAIN a) \cup (DOMAIN b) |-> IF k \in DOMAIN a THEN a[k] ELSE b[k]]

\* { ...a, ...b } on parameter objects
Spread(a, b) ==
    [k \in (DOMAIN a) \cup (DOMAIN b) |-> IF k \in DOMAIN b THEN b[k] ELSE a[k]]

\* model values: a string id, a model handle, null or undefined
ModelId(id) == [kind |-> "string", name |-> id, mw |-> <<>>]
Handle(h) == [kind |-> "handle", name |-> h, mw |-> <<>>]
NullModel == [kind |-> "null", name |-> "", mw |-> <<>>]
UndefinedModel == [kind |-> "undefined", name |-> "", mw |-> <<>>]

\* wrapLanguageModel({ model, middleware })
WrapLanguageModel(model, middleware) == [model EXCEPT !.mw = middleware \o @]

\* errors
NoError == [type |-> "none", cur |-> 0, max |-> 0, modelId |-> "", providerId |-> ""]
RecursiveDepthError(cur, max) ==
    [type |-> "RecursiveDepthError", cur |-> cur, max |-> max,
     modelId |-> "", providerId |-> ""]
ModelResolutionError(modelId, providerId) ==
    [type |-> "ModelResolutionError", cur |-> 0, max |-> 0,
     modelId |-> modelId, providerId |-> providerId]
ThrownError(what) ==
    [type |-> what, cur |-> 0, max |-> 0, modelId |-> "", providerId |-> ""]
UndefinedError == ThrownError("undefined")

\* the error an onError hook of the frame at the given stack level raises
OnErrorHookError(level) ==
    [type |-> "OnErrorHookError", cur |-> level, max |-> 0,
     modelId |-> "", providerId |-> ""]

\* results of the executor: a value threaded through transformResult, or undefined
Result(v) == [def |-> TRUE, v |-> v]
UndefinedResult == [def |-> FALSE, v |-> <<>>]

ProviderId == "openai"

-----------------------------------------------------------------------------
(* Plugins *)

EmptyPatch == EmptyFn

Plugin(name, enforce, hooks, mw, model, patch, recurse, toolUse) ==
    [name |-> name, enforce |-> enforce, hooks |-> hooks, mw |-> mw,
     model |-> model, patch |-> patch, recurse |-> recurse, toolUse |-> toolUse]

LifecyclePlugin ==
    Plugin("lifecycle", "normal",
           {"configureContext", "onRequestStart", "resolveModel",
            "transformParams", "transformStream", "transformResult",
            "onRequestEnd", "onError"},
           "mw1", Handle("H1"), ("temperature" :> Num(5)), "none", FALSE)

InternalResolveModelPlugin ==
    Plugin("_internal_resolveModel", "post", {"resolveModel"},
           "", Handle("H2"), EmptyPatch, "none", FALSE)

PreWriterPlugin ==
    Plugin("pre-writer", "pre",
           {"configureContext", "onRequestStart", "resolveModel", "transformParams",
            "transformStream", "transformResult", "onError"},
           "mw2", NullModel, ("tools" :> Obj("b" :> 1)), "none", FALSE)

RecursivePlugin ==
    Plugin("recursive", "normal", {"resolveModel", "transformParams", "onRequestEnd"},
           "", UndefinedModel, EmptyPatch, "transformParams", FALSE)

PromptToolUsePlugin ==
    Plugin("built-in:prompt-tool-use", "normal",
           {"transformParams", "transformStream"},
           "", NullModel, EmptyPatch, "none", TRUE)

\* plugin lists without repetition over a pool, up to MaxPlugins long
ListsOver(pool) ==
    UNION {{s \in [1..n -> pool] : \A i, j \in 1..n : i # j => s[i] # s[j]}
           : n \in 0..MaxPlugins}

PluginPool == {LifecyclePlugin, InternalResolveModelPlugin, PreWriterPlugin,
               RecursivePlugin}

StreamPluginPool == {PromptToolUsePlugin, InternalResolveModelPlugin, LifecyclePlugin}

ManagerPluginPool == PluginPool \cup {PromptToolUsePlugin}

-----------------------------------------------------------------------------
(* PluginManager: sorting *)

IsPre(p) == p.enforce = "pre"
IsPost(p) == p.enforce = "post"
IsNormal(p) == p.enforce # "pre" /\ p.enforce # "post"

\* a partition that leaves the 'post' plugins among the untagged ones
SortPluginsPreOnly(ps) ==
    SelectSeq(ps, IsPre) \o SelectSeq(ps, LAMBDA p : ~IsPre(p))

SortPlugins(ps) ==
    SelectSeq(ps, IsPre) \o SelectSeq(ps, IsNormal) \o SelectSeq(ps, IsPost)


-----------------------------------------------------------------------------
(* Request context and call frames *)

Params(model, data) == [model |-> model, data |-> data]

\* Partial<TParams>: the keys an override sets
Partial(hasModel, model, data) == [hasModel |-> hasModel, model |-> model, data |-> data]

\* { ...params, ...newParams }
MergeParams(params, newParams) ==
    [model |-> IF newParams.hasModel THEN newParams.model ELSE params.model,
     data |-> Spread(params.data, newParams.data)]

CreateContext(params) ==
    [recursiveDepth |-> 0,
     isRecursiveCall |-> FALSE,
     maxRecursiveDepth |-> DefaultMaxRecursiveDepth,
     middlewares |-> <<>>,
     mcpTools |-> UndefVal,
     originalParams |-> params,
     hasExecutedToolsInCurrentStep |-> FALSE,
     accumulatedUsage |-> [def |-> FALSE, u |-> EmptyFn],
     recursiveCall |-> params]

Sorted == SortPlugins(basePlugins)
N == Len(Sorted)

HasHook(i, h) == h \in Sorted[i].hooks

\* index of the first plugin at or after `from` that implements hook h, N + 1 if none
NextWith(h, from) ==
    IF \E j \in from..N : HasHook(j, h)
    THEN CHOOSE j \in from..N : HasHook(j, h) /\ \A k \in from..(j - 1) : ~HasHook(k, h)
    ELSE N + 1

WithHook(h) == {i \in 1..N : HasHook(i, h)}

\* trace events of a frame
PhaseEv(h) == [e |-> "phase", h |-> h, p |-> 0]
CallEv(h, i) == [e |-> "call", h |-> h, p |-> i]
RetEv(h, i) == [e |-> "ret", h |-> h, p |-> i]

IndexSeq == [i \in 1..N |-> i]
CallsOf(h, S) ==
    LET idxs == SelectSeq(IndexSeq, LAMBDA i : i \in S)
    IN [k \in 1..Len(idxs) |-> CallEv(h, idxs[k])]

NoExec == [called |-> FALSE, model |-> UndefinedModel, params |-> EmptyFn,
           transforms |-> <<>>, toolTransform |-> FALSE, returned |-> UndefinedResult]

\* the code of execute*WithPlugins up to the first hook of configureContext
EnterFrame(kind, params, caller, previousDepth, wasRecursive) ==
    [kind |-> kind,
     params |-> params,
     caller |-> caller,
     previousDepth |-> previousDepth,
     wasRecursive |-> wasRecursive,
     pre |-> [depth |-> ctx.recursiveDepth, flag |-> ctx.isRecursiveCall],
     pc |-> "configureContext",
     idx |-> NextWith("configureContext", 1),
     sub |-> "none",
     pend |-> {},
     orphans |-> {},
     resolvedModel |-> IF params.model.kind = "string" THEN UndefinedModel ELSE params.model,
     baseModel |-> UndefinedModel,
     mwAfterConfigure |-> <<>>,
     tparams |-> params.data,
     patches |-> <<>>,
     exec |-> NoExec,
     result |-> UndefinedResult,
     endArg |-> UndefinedResult,
     err |-> NoError,
     caught |-> NoError,
     failedAt |-> "none",
     trace |-> <<PhaseEv("configureContext")>>]

Top == stack[Len(stack)]
Running == stack # <<>> /\ Top.pc \notin {"done", "thrown"}
SetTop(f) == [stack EXCEPT ![Len(stack)] = f]

\* hooks invoked by executeParallel(hookName, context, result, error)
ParallelInvoked(hookName, result, error) ==
    IF hookName = "onError" /\ error # UndefinedError THEN WithHook(hookName)
    ELSE IF hookName = "onRequestEnd" /\ result.def THEN WithHook(hookName)
    ELSE IF hookName = "onRequestStart" THEN WithHook(hookName)
    ELSE {}

\* a catch block that rethrows without running the onError hooks
CatchWithoutOnError(f, error) ==
    [f EXCEPT !.pc = "onError",
              !.err = error,
              !.caught = error,
              !.failedAt = f.pc,
              !.sub = "none",
              !.orphans = @ \cup f.pend,
              !.pend = {},
              !.trace = Append(@, PhaseEv("onError"))]

\* catch (error) { await manager.executeParallel('onError', ...) ... }
Catch(f, error) ==
    LET invoked == ParallelInvoked("onError", UndefinedResult, error)
    IN [f EXCEPT !.pc = "onError",
                 !.err = error,
                 !.caught = error,
                 !.failedAt = f.pc,
                 !.sub = "none",
                 !.orphans = @ \cup f.pend,
                 !.pend = invoked,
                 !.trace = @ \o <<PhaseEv("onError")>> \o CallsOf("onError", invoked)]

-----------------------------------------------------------------------------
(* Hook behaviour of the plugins *)

\* tools of a ToolSet by kind: value 2 marks a tool of type 'provider'
ProviderTools(o) == [k \in {x \in DOMAIN o : o[x] = 2} |-> o[k]]

\* a partition that moves every tool to the prompt tools
PromptToolsOfAnyType(o) == o

PromptTools(o) == [k \in {x \in DOMAIN o : o[x] # 2} |-> o[k]]

ToolsParam(o) == IF DOMAIN ProviderTools(o) # {} THEN Obj(ProviderTools(o)) ELSE UndefVal

\* defaultBuildSystemPrompt: the prompt is counted in tool catalogues it holds
BuildSystemPrompt(userSystemPrompt, tools) ==
    IF DOMAIN tools = {} THEN userSystemPrompt ELSE userSystemPrompt + 1

HasTools(data) == "tools" \in DOMAIN data /\ data["tools"].t = "obj"

SystemOf(data) ==
    IF "system" \in DOMAIN data /\ data["system"].t = "num" THEN data["system"].n ELSE 0

\* transformParams that builds the prompt in recursive frames as well
PromptToolUseTransformParamsRebuilding(data, c) ==
    IF ~HasTools(data) THEN data
    ELSE LET o == data["tools"].o
             systemPrompt == BuildSystemPrompt(SystemOf(data), PromptTools(o))
         IN Spread(Spread(data,
                          IF systemPrompt # 0
                          THEN "system" :> Num(systemPrompt) ELSE EmptyFn),
                   "tools" :> ToolsParam(o))

\* transformParams of the prompt-tool-use plugin: the returned params
PromptToolUseTransformParams(data, c) ==
    IF ~HasTools(data) THEN data
    ELSE LET o == data["tools"].o
             systemPrompt == BuildSystemPrompt(SystemOf(data), PromptTools(o))
         IN IF c.isRecursiveCall
            THEN Spread(data, "tools" :> ToolsParam(o))
            ELSE Spread(Spread(data,
                               IF systemPrompt # 0
                               THEN "system" :> Num(systemPrompt) ELSE EmptyFn),
                        "tools" :> ToolsParam(o))

\* transformParams of the prompt-tool-use plugin: its writes to the context
PromptToolUseContext(data, c, model) ==
    IF ~HasTools(data) THEN c
    ELSE LET o == data["tools"].o
             c1 == IF DOMAIN PromptTools(o) # {}
                   THEN [c EXCEPT !.mcpTools = Obj(PromptTools(o))] ELSE c
         IN [c1 EXCEPT !.originalParams =
                 Params(model, PromptToolUseTransformParams(data, c))]

\* the partial a plugin's transformParams hook returns for the running value
TransformParamsOf(p, data, c) ==
    IF p.toolUse THEN PromptToolUseTransformParams(data, c) ELSE p.patch

\* the value of a hook is dropped: the running result stays as it was
TransformResultDropped(p, result) == result

\* the value a plugin's transformResult hook returns
TransformResultOf(p, result) ==
    IF result.def THEN Result(Append(result.v, p.name)) ELSE result

-----------------------------------------------------------------------------
(* PluginEngine: the lifecycle of one frame *)

Kinds == {"generateText", "streamText", "generateImage"}

CallModels == {ModelId("gpt-4"), Handle("H0")}

CallData == {("temperature" :> Num(1)) @@ ("tools" :> Obj(("a" :> 1) @@ ("g" :> 2)))}

\* a caller invokes executeWithPlugins / executeStreamWithPlugins /
\* executeImageWithPlugins without a context
Call(kind, model, data) ==
    /\ UNCHANGED <<managerVars, usageVars, transformVars, toolVars, callVars, pluginVars>>
    /\ outcome.st = "idle"
    /\ stack = <<>>
    /\ LET params == Params(model, data)
       IN /\ ctx' = CreateContext(params)
          /\ stack' = <<EnterFrame(kind, params, "top", 0, FALSE)>>
    /\ outcome' = [outcome EXCEPT !.st = "pending"]
    /\ UNCHANGED <<basePlugins, streams, nested, depthErrors>>

\* executeConfigureContext: the hook of one plugin runs to its end
ExecuteConfigureContext ==
    /\ UNCHANGED <<managerVars, usageVars, transformVars, toolVars, callVars, pluginVars>>
    /\ Running
    /\ Top.pc = "configureContext"
    /\ Top.idx <= N
    /\ LET f == Top
           i == f.idx
           p == Sorted[i]
       IN /\ ctx' = IF p.mw # ""
                    THEN [ctx EXCEPT !.middlewares = Append(@, p.mw)] ELSE ctx
          /\ stack' = SetTop([f EXCEPT
                 !.idx = NextWith("configureContext", i + 1),
                 !.sub = "none",
                 !.trace = @ \o (IF f.sub = "ok" THEN <<>>
                                 ELSE <<CallEv("configureContext", i)>>)
                             \o <<RetEv("configureContext", i)>>])
    /\ UNCHANGED <<basePlugins, outcome, streams, nested, depthErrors>>

\* executeParallel('onRequestStart', context): every hook is invoked
OnRequestStart ==
    /\ UNCHANGED <<managerVars, usageVars, transformVars, toolVars, callVars, pluginVars>>
    /\ Running
    /\ Top.pc = "configureContext"
    /\ Top.idx > N
    /\ LET f == Top
           invoked == ParallelInvoked("onRequestStart", UndefinedResult, UndefinedError)
       IN stack' = SetTop([f EXCEPT
              !.pc = "onRequestStart",
              !.mwAfterConfigure = ctx.middlewares,
              !.pend = invoked,
              !.trace = @ \o <<PhaseEv("onRequestStart")>>
                          \o CallsOf("onRequestStart", invoked)])
    /\ UNCHANGED <<basePlugins, ctx, outcome, streams, nested, depthErrors>>

\* a pending parallel hook resolves
ParallelHookResolves(i) ==
    /\ UNCHANGED <<managerVars, usageVars, transformVars, toolVars, callVars, pluginVars>>
    /\ Running
    /\ Top.pc \in {"onRequestStart", "onRequestEnd", "onError"}
    /\ i \in Top.pend
    /\ stack' = SetTop([Top EXCEPT !.pend = @ \ {i}])
    /\ UNCHANGED <<basePlugins, ctx, outcome, streams, nested, depthErrors>>

\* the rejection of an onError hook is lost and the caught error is rethrown
ThrowFromCatchOriginal(f) ==
    [f EXCEPT !.pc = "thrown", !.orphans = @ \cup f.pend, !.pend = {}]

\* await executeParallel('onError', ...) rejects inside the catch block: the
\* rejection leaves the frame instead of `throw error`
ThrowFromCatch(f) ==
    [f EXCEPT !.pc = "thrown",
              !.err = OnErrorHookError(Len(stack)),
              !.orphans = @ \cup f.pend,
              !.pend = {}]

\* executeParallel rejects in frame f, the hooks in f.pend still pending
ParallelRejected(f) ==
    IF f.pc = "onError" THEN ThrowFromCatch(f) ELSE Catch(f, ThrownError("HookError"))

\* a pending parallel hook rejects: Promise.all rejects with its error at once
ParallelHookRejects(i) ==
    /\ UNCHANGED <<managerVars, usageVars, transformVars, toolVars, callVars, pluginVars>>
    /\ Running
    /\ Top.pc \in {"onRequestStart", "onRequestEnd", "onError"}
    /\ i \in Top.pend
    /\ stack' = SetTop(ParallelRejected([Top EXCEPT !.pend = @ \ {i}]))
    /\ UNCHANGED <<basePlugins, ctx, outcome, streams, nested, depthErrors>>

\* the hook of plugin i throws synchronously inside this.plugins.map(...): the
\* hooks of the later plugins are never invoked, those invoked before it are
\* left pending, and executeParallel rejects
ParallelHookThrows(i) ==
    /\ UNCHANGED <<managerVars, usageVars, transformVars, toolVars, callVars, pluginVars>>
    /\ Running
    /\ Top.pc \in {"onRequestStart", "onRequestEnd", "onError"}
    /\ i \in Top.pend
    /\ Top.pend = WithHook(Top.pc)
    /\ LET later == {j \in Top.pend : j > i}
           f == [Top EXCEPT
                    !.pend = {j \in @ : j < i},
                    !.trace = SubSeq(@, 1, Len(@) - Cardinality(later))]
       IN stack' = SetTop(ParallelRejected(f))
    /\ UNCHANGED <<basePlugins, ctx, outcome, streams, nested, depthErrors>>

\* step 2 started without awaiting executeParallel('onRequestStart')
ResolveModelEarly ==
    /\ UNCHANGED <<managerVars, usageVars, transformVars, toolVars, callVars, pluginVars>>
    /\ Running
    /\ Top.pc = "onRequestStart"
    /\ Top.params.model.kind = "string"
    /\ stack' = SetTop([Top EXCEPT
           !.pc = "resolveModel",
           !.idx = NextWith("resolveModel", 1),
           !.trace = Append(@, PhaseEv("resolveModel"))])
    /\ UNCHANGED <<basePlugins, ctx, outcome, streams, nested, depthErrors>>

\* step 2 for a string model id: executeFirst('resolveModel') starts
ResolveModel ==
    /\ UNCHANGED <<managerVars, usageVars, transformVars, toolVars, callVars, pluginVars>>
    /\ Running
    /\ Top.pc = "onRequestStart"
    /\ Top.pend = {}
    /\ Top.params.model.kind = "string"
    /\ stack' = SetTop([Top EXCEPT
           !.pc = "resolveModel",
           !.idx = NextWith("resolveModel", 1),
           !.trace = Append(@, PhaseEv("resolveModel"))])
    /\ UNCHANGED <<basePlugins, ctx, outcome, streams, nested, depthErrors>>

\* a test that lets null through
IsValidResultLoose(result) == result.kind # "undefined"

\* result !== null && result !== undefined
IsValidResult(result) == result.kind \notin {"null", "undefined"}

\* executeFirst: the resolveModel hook of one plugin returns
ExecuteFirst ==
    /\ UNCHANGED <<managerVars, usageVars, transformVars, toolVars, callVars, pluginVars>>
    /\ Running
    /\ Top.pc = "resolveModel"
    /\ Top.idx <= N
    /\ LET f == Top
           i == f.idx
           p == Sorted[i]
           found == IsValidResult(p.model)
       IN /\ stack' = SetTop([f EXCEPT
                 !.idx = IF found THEN N + 1 ELSE NextWith("resolveModel", i + 1),
                 !.resolvedModel = IF found THEN p.model ELSE @,
                 !.sub = "none",
                 !.trace = @ \o (IF f.sub = "ok" THEN <<>>
                                 ELSE <<CallEv("resolveModel", i)>>)
                             \o <<RetEv("resolveModel", i)>>])
    /\ UNCHANGED <<basePlugins, ctx, outcome, streams, nested, depthErrors>>

\* 2.5: the model handed on after context.middlewares were applied
ApplyMiddlewares(kind, model, resolvedModel, middlewares) ==
    IF kind = "generateImage" THEN resolvedModel
    ELSE IF kind = "streamText"
    THEN IF model.kind # "string" /\ Len(middlewares) > 0
         THEN WrapLanguageModel(resolvedModel, middlewares) ELSE resolvedModel
    ELSE IF Len(middlewares) > 0
         THEN WrapLanguageModel(resolvedModel, middlewares) ELSE resolvedModel

\* no check of the resolved model at all
UnresolvedNever(model) == FALSE

\* `if (!resolved)` / `if (!resolvedModel)`
Unresolved(model) == model.kind \in {"null", "undefined"}

\* end of step 2, step 2.5 and the start of executeTransformParams
TransformParams ==
    /\ UNCHANGED <<managerVars, usageVars, transformVars, toolVars, callVars, pluginVars>>
    /\ Running
    /\ \/ Top.pc = "onRequestStart" /\ Top.pend = {} /\ Top.params.model.kind # "string"
       \/ Top.pc = "resolveModel" /\ Top.idx > N
    /\ LET f == Top
       IN stack' = SetTop(
              IF Unresolved(f.resolvedModel)
              THEN Catch(f, ModelResolutionError(f.params.model.name, ProviderId))
              ELSE [f EXCEPT
                       !.pc = "transformParams",
                       !.idx = NextWith("transformParams", 1),
                       !.baseModel = f.resolvedModel,
                       !.resolvedModel = ApplyMiddlewares(f.kind, f.params.model,
                                                          f.resolvedModel, ctx.middlewares),
                       !.tparams = f.params.data,
                       !.trace = Append(@, PhaseEv("transformParams"))])
    /\ UNCHANGED <<basePlugins, ctx, outcome, streams, nested, depthErrors>>

\* executeTransformParams: the hook of one plugin returns its partial
ExecuteTransformParams ==
    /\ UNCHANGED <<managerVars, usageVars, transformVars, toolVars, callVars, pluginVars>>
    /\ Running
    /\ Top.pc = "transformParams"
    /\ Top.idx <= N
    /\ LET f == Top
           i == f.idx
           p == Sorted[i]
           partial == TransformParamsOf(p, f.tparams, ctx)
       IN /\ ctx' = IF p.toolUse
                    THEN PromptToolUseContext(f.tparams, ctx, f.params.model) ELSE ctx
          /\ stack' = SetTop([f EXCEPT
                 !.idx = NextWith("transformParams", i + 1),
                 !.tparams = Spread(f.tparams, partial),
                 !.patches = Append(@, partial),
                 !.sub = "none",
                 !.trace = @ \o (IF f.sub = "ok" THEN <<>>
                                 ELSE <<CallEv("transformParams", i)>>)
                             \o <<RetEv("transformParams", i)>>])
    /\ UNCHANGED <<basePlugins, outcome, streams, nested, depthErrors>>

\* the transform of a plugin, built by its factory from the params it is given
StreamTransform(p, params) == [plugin |-> p.name, params |-> params]

\* the factories called in registration order instead of sorted order
CollectStreamTransformsUnsorted(params) ==
    LET ps == SelectSeq(basePlugins, LAMBDA p : "transformStream" \in p.hooks)
    IN [k \in 1..Len(ps) |-> StreamTransform(ps[k], params)]

\* collectStreamTransforms: this.plugins.filter(...).map(...)
CollectStreamTransforms(params) ==
    LET ps == SelectSeq(Sorted, LAMBDA p : "transformStream" \in p.hooks)
    IN [k \in 1..Len(ps) |-> StreamTransform(ps[k], params)]

ExecutorResults == {Result(<<>>), UndefinedResult}
ExecutorErrors == {ThrownError("ExecutorError"), UndefinedError}

\* steps 4 and 5: the executor is called and returns
ExecutorReturns(r) ==
    /\ UNCHANGED <<managerVars, usageVars, transformVars, toolVars, callVars, pluginVars>>
    /\ Running
    /\ Top.pc = "transformParams"
    /\ Top.idx > N
    /\ LET f == Top
           transforms == IF f.kind = "streamText"
                         THEN CollectStreamTransforms(f.tparams) ELSE <<>>
       IN stack' = SetTop([f EXCEPT
              !.pc = "transformResult",
              !.idx = NextWith("transformResult", 1),
              !.exec = [called |-> TRUE, model |-> f.resolvedModel,
                        params |-> f.tparams, transforms |-> transforms,
                        toolTransform |->
                            /\ \E k \in 1..Len(transforms) :
                                   transforms[k].plugin = PromptToolUsePlugin.name
                            /\ ctx.mcpTools.t = "obj",
                        returned |-> r],
              !.result = r,
              !.trace = @ \o <<PhaseEv("executor"), PhaseEv("transformResult")>>])
    /\ UNCHANGED <<basePlugins, ctx, outcome, streams, nested, depthErrors>>

\* steps 4 and 5: the executor is called and throws
ExecutorThrows(e) ==
    /\ UNCHANGED <<managerVars, usageVars, transformVars, toolVars, callVars, pluginVars>>
    /\ Running
    /\ Top.pc = "transformParams"
    /\ Top.idx > N
    /\ LET f == Top
           transforms == IF f.kind = "streamText"
                         THEN CollectStreamTransforms(f.tparams) ELSE <<>>
       IN stack' = SetTop(Catch([f EXCEPT
              !.exec = [called |-> TRUE, model |-> f.resolvedModel,
                        params |-> f.tparams, transforms |-> transforms,
                        toolTransform |-> FALSE, returned |-> UndefinedResult],
              !.trace = Append(@, PhaseEv("executor"))], e))
    /\ UNCHANGED <<basePlugins, ctx, outcome, streams, nested, depthErrors>>

\* executeTransformResult: the hook of one plugin returns
ExecuteTransformResult ==
    /\ UNCHANGED <<managerVars, usageVars, transformVars, toolVars, callVars, pluginVars>>
    /\ Running
    /\ Top.pc = "transformResult"
    /\ Top.idx <= N
    /\ LET f == Top
           i == f.idx
           p == Sorted[i]
       IN stack' = SetTop([f EXCEPT
              !.idx = NextWith("transformResult", i + 1),
              !.result = TransformResultOf(p, f.result),
              !.sub = "none",
              !.trace = @ \o (IF f.sub = "ok" THEN <<>>
                              ELSE <<CallEv("transformResult", i)>>)
                          \o <<RetEv("transformResult", i)>>])
    /\ UNCHANGED <<basePlugins, ctx, outcome, streams, nested, depthErrors>>

\* executeParallel('onRequestEnd', context, transformedResult)
OnRequestEnd ==
    /\ UNCHANGED <<managerVars, usageVars, transformVars, toolVars, callVars, pluginVars>>
    /\ Running
    /\ Top.pc = "transformResult"
    /\ Top.idx > N
    /\ LET f == Top
           invoked == ParallelInvoked("onRequestEnd", f.result, UndefinedError)
       IN stack' = SetTop([f EXCEPT
              !.pc = "onRequestEnd",
              !.endArg = f.result,
              !.pend = invoked,
              !.trace = @ \o <<PhaseEv("onRequestEnd")>>
                          \o CallsOf("onRequestEnd", invoked)])
    /\ UNCHANGED <<basePlugins, ctx, outcome, streams, nested, depthErrors>>

\* return transformedResult
ReturnResult ==
    /\ UNCHANGED <<managerVars, usageVars, transformVars, toolVars, callVars, pluginVars>>
    /\ Running
    /\ Top.pc = "onRequestEnd"
    /\ Top.pend = {}
    /\ stack' = SetTop([Top EXCEPT !.pc = "done"])
    /\ UNCHANGED <<basePlugins, ctx, outcome, streams, nested, depthErrors>>

\* throw error, after the onError hooks have all resolved
Rethrow ==
    /\ UNCHANGED <<managerVars, usageVars, transformVars, toolVars, callVars, pluginVars>>
    /\ Running
    /\ Top.pc = "onError"
    /\ Top.pend = {}
    /\ stack' = SetTop([Top EXCEPT !.pc = "thrown"])
    /\ UNCHANGED <<basePlugins, ctx, outcome, streams, nested, depthErrors>>

SequentialHooks == {"configureContext", "resolveModel", "transformParams",
                    "transformResult"}

AtSequentialHook ==
    /\ Running
    /\ Top.pc \in SequentialHooks
    /\ Top.idx <= N

\* the frame with the invocation of the current sequential hook on its trace
Invoked(f) ==
    IF f.sub = "none" THEN [f EXCEPT !.trace = Append(@, CallEv(f.pc, f.idx))] ELSE f

\* a loop that goes on with the next plugin when a hook throws
PropagateSwallowed(f, error) ==
    [Invoked(f) EXCEPT !.idx = NextWith(f.pc, f.idx + 1), !.sub = "none"]

\* the manager loops await the hook outside any try block: what the hook
\* throws leaves the loop and reaches the catch block of the engine
Propagate(f, error) == Catch(Invoked(f), error)

\* the sequential hook of one plugin throws
HookThrows ==
    /\ UNCHANGED <<managerVars, usageVars, transformVars, toolVars, callVars, pluginVars>>
    /\ AtSequentialHook
    /\ stack' = SetTop(Propagate(Top, ThrownError("HookError")))
    /\ UNCHANGED <<basePlugins, ctx, outcome, streams, nested, depthErrors>>

-----------------------------------------------------------------------------
(* context.recursiveCall *)

\* the limit tested with > instead of >=
DepthExceededLate(c) == c.recursiveDepth > c.maxRecursiveDepth

\* if (context.recursiveDepth >= context.maxRecursiveDepth) throw ...
DepthExceeded(c) == c.recursiveDepth >= c.maxRecursiveDepth

\* try { context.recursiveDepth = previousDepth + 1; context.isRecursiveCall = true
RecursiveCallEnter(c) ==
    [c EXCEPT !.recursiveDepth = c.recursiveDepth + 1, !.isRecursiveCall = TRUE]

\* a finally block that restores nothing
RecursiveCallFinallyKeeps(c, f) == c

\* finally { context.recursiveDepth = previousDepth; context.isRecursiveCall = wasRecursive }
RecursiveCallFinally(c, f) ==
    [c EXCEPT !.recursiveDepth = f.previousDepth, !.isRecursiveCall = f.wasRecursive]

\* the nested execute*WithPlugins binds context.recursiveCall to its own params
Rebind(c, params) == [c EXCEPT !.recursiveCall = params]

\* the override a recursing hook passes
HookOverride == Partial(FALSE, UndefinedModel, "messages" :> Num(1))

\* a sequential hook calls context.recursiveCall(newParams)
RecursiveCall ==
    /\ UNCHANGED <<managerVars, usageVars, transformVars, toolVars, callVars, pluginVars>>
    /\ AtSequentialHook
    /\ Sorted[Top.idx].recurse = Top.pc
    /\ Top.sub = "none"
    /\ nested < MaxNested
    /\ LET f == Invoked(Top)
           params == MergeParams(ctx.recursiveCall, HookOverride)
       IN IF DepthExceeded(ctx)
          THEN /\ stack' = SetTop(Propagate(Top, RecursiveDepthError(ctx.recursiveDepth,
                                                               ctx.maxRecursiveDepth)))
               /\ depthErrors' = depthErrors + 1
               /\ UNCHANGED <<ctx, nested>>
          ELSE /\ stack' = Append(SetTop([f EXCEPT !.sub = "await"]),
                                  EnterFrame(f.kind, params, "hook",
                                             ctx.recursiveDepth, ctx.isRecursiveCall))
               /\ ctx' = Rebind(RecursiveCallEnter(ctx), params)
               /\ nested' = nested + 1
               /\ UNCHANGED depthErrors
    /\ UNCHANGED <<basePlugins, outcome, streams>>

Settled == stack # <<>> /\ Top.pc \in {"done", "thrown"}

\* the recursive call of a hook settles: finally, then the hook goes on or rethrows
RecursiveCallSettles ==
    /\ UNCHANGED <<managerVars, usageVars, transformVars, toolVars, callVars, pluginVars>>
    /\ Settled
    /\ Top.caller = "hook"
    /\ LET g == Top
           parent == stack[Len(stack) - 1]
           rest == SubSeq(stack, 1, Len(stack) - 2)
       IN /\ ctx' = RecursiveCallFinally(ctx, g)
          /\ stack' = Append(rest,
                 IF g.pc = "done" THEN [parent EXCEPT !.sub = "ok"]
                 ELSE Propagate(parent, g.err))
    /\ UNCHANGED <<basePlugins, outcome, streams, nested, depthErrors>>

\* the stream a streamText frame hands back
StreamOf(f) == [tool |-> f.exec.toolTransform]

\* the top-level call settles
TopLevelSettles ==
    /\ UNCHANGED <<managerVars, usageVars, transformVars, toolVars, callVars, pluginVars>>
    /\ Settled
    /\ Top.caller = "top"
    /\ LET f == Top
       IN /\ outcome' = IF f.pc = "done"
                        THEN [st |-> "ok", result |-> f.result, err |-> NoError]
                        ELSE [st |-> "err", result |-> UndefinedResult, err |-> f.err]
          /\ streams' = IF f.pc = "done" /\ f.kind = "streamText" /\ f.result.def
                        THEN <<StreamOf(f)>> ELSE <<>>
    /\ stack' = <<>>
    /\ UNCHANGED <<basePlugins, ctx, nested, depthErrors>>

-----------------------------------------------------------------------------
(* The prompt-tool-use stream transform: the recursive follow-up call *)

MessagesOf(data) ==
    IF "messages" \in DOMAIN data /\ data["messages"].t = "num"
    THEN data["messages"].n ELSE 0

\* buildRecursiveParams: the assistant text and the tool results are appended
BuildRecursiveParams(c) ==
    Partial(TRUE, c.originalParams.model,
            Spread(c.originalParams.data,
                   ("messages" :> Num(MessagesOf(c.originalParams.data) + 2))
                   @@ ("tools" :> c.mcpTools)))

Consuming == stack = <<>> /\ streams # <<>> /\ outcome.st = "ok"

\* finish-step of the innermost stream whose text holds a tool block:
\* the tools run and handleRecursiveCall calls context.recursiveCall
FinishStepToolUse ==
    /\ UNCHANGED <<managerVars, usageVars, transformVars, toolVars, callVars, pluginVars>>
    /\ Consuming
    /\ nested < MaxNested
    /\ streams[Len(streams)].tool
    /\ ctx.mcpTools.t = "obj" /\ DOMAIN ctx.mcpTools.o # {}
    /\ ~ctx.hasExecutedToolsInCurrentStep
    /\ LET c == [ctx EXCEPT !.hasExecutedToolsInCurrentStep = FALSE]
           params == MergeParams(ctx.recursiveCall, BuildRecursiveParams(ctx))
       IN IF DepthExceeded(c)
          THEN /\ ctx' = c
               /\ outcome' = [st |-> "streamError", result |-> UndefinedResult,
                              err |-> RecursiveDepthError(c.recursiveDepth,
                                                          c.maxRecursiveDepth)]
               /\ streams' = <<>>
               /\ depthErrors' = depthErrors + 1
               /\ UNCHANGED <<stack, nested>>
          ELSE /\ ctx' = Rebind(RecursiveCallEnter(c), params)
               /\ stack' = <<EnterFrame("streamText", params, "stream",
                                        c.recursiveDepth, c.isRecursiveCall)>>
               /\ nested' = nested + 1
               /\ UNCHANGED <<outcome, streams, depthErrors>>
    /\ UNCHANGED basePlugins

\* the recursive call of the stream transform settles: finally, then the
\* recursive stream is piped into the current one, or the transform rejects
StreamRecursiveCallSettles ==
    /\ UNCHANGED <<managerVars, usageVars, transformVars, toolVars, callVars, pluginVars>>
    /\ Settled
    /\ Top.caller = "stream"
    /\ LET g == Top
       IN /\ ctx' = RecursiveCallFinally(ctx, g)
          /\ IF g.pc = "done"
             THEN /\ streams' = IF g.result.def THEN Append(streams, StreamOf(g))
                                ELSE streams
                  /\ UNCHANGED outcome
             ELSE /\ streams' = <<>>
                  /\ outcome' = [st |-> "streamError", result |-> UndefinedResult,
                                 err |-> g.err]
    /\ stack' = <<>>
    /\ UNCHANGED <<basePlugins, nested, depthErrors>>

\* the innermost stream ends without a tool block: every pipe ends with it
StreamEnds ==
    /\ UNCHANGED <<managerVars, usageVars, transformVars, toolVars, callVars, pluginVars>>
    /\ Consuming
    /\ streams' = <<>>
    /\ outcome' = [outcome EXCEPT !.st = "consumed"]
    /\ UNCHANGED <<basePlugins, stack, ctx, nested, depthErrors>>

-----------------------------------------------------------------------------
(* Specifications of the engine *)

EngineInit(lists) ==
    /\ basePlugins \in lists
    /\ stack = <<>>
    /\ ctx = CreateContext(Params(UndefinedModel, EmptyFn))
    /\ outcome = [st |-> "idle", result |-> UndefinedResult, err |-> NoError]
    /\ streams = <<>>
    /\ nested = 0
    /\ depthErrors = 0

NoManager ==
    /\ plugins = <<>>
    /\ registered = <<>>

\* no usage record is being accumulated
NoUsage == usage = [initial |-> EmptyFn, applied |-> <<>>, target |-> EmptyFn, warnings |-> 0]

\* no stream is being transformed, no text extracted or parsed, and no hook
\* has called context.recursiveCall concurrently with another
NoTransform ==
    /\ pipes = <<>>
    /\ out = <<>>
    /\ fed = <<>>
    /\ extractor = <<>>
    /\ parse = <<>>
    /\ hookCalls = <<>>
    /\ promptPlugin = <<>>

\* the steps of a frame that is running
FrameStep ==
    \/ ExecuteConfigureContext
    \/ OnRequestStart
    \/ \E i \in 1..N : ParallelHookResolves(i)
    \/ \E i \in 1..N : ParallelHookRejects(i)
    \/ \E i \in 1..N : ParallelHookThrows(i)
    \/ ResolveModel
    \/ ExecuteFirst
    \/ TransformParams
    \/ ExecuteTransformParams
    \/ \E r \in ExecutorResults : ExecutorReturns(r)
    \/ \E e \in ExecutorErrors : ExecutorThrows(e)
    \/ ExecuteTransformResult
    \/ OnRequestEnd
    \/ ReturnResult
    \/ Rethrow
    \/ HookThrows
    \/ TopLevelSettles

\* one request of any call shape, with hooks that call context.recursiveCall
Init == EngineInit(ListsOver(PluginPool)) /\ NoManager /\ NoUsage /\ NoTransform

Next ==
    \/ \E kind \in Kinds, model \in CallModels, data \in CallData :
          Call(kind, model, data)
    \/ FrameStep
    \/ RecursiveCall
    \/ RecursiveCallSettles

Spec == Init /\ [][Next]_vars

\* one streamText request whose stream is consumed through the prompt-tool-use
\* transform
InitStream ==
    EngineInit(ListsOver(StreamPluginPool)) /\ NoManager /\ NoUsage /\ NoTransform

NextStream ==
    \/ \E model \in CallModels, data \in CallData : Call("streamText", model, data)
    \/ FrameStep
    \/ FinishStepToolUse
    \/ StreamRecursiveCallSettles
    \/ StreamEnds

SpecStream == InitStream /\ [][NextStream]_vars

-----------------------------------------------------------------------------
(* PluginManager: construction, use and remove *)

\* constructor(plugins)
InitManager ==
    /\ EngineInit({<<>>})
    /\ NoUsage
    /\ NoTransform
    /\ \E list \in ListsOver(ManagerPluginPool) :
          /\ plugins = SortPlugins(list)
          /\ registered = list

\* use(plugin)
Use(plugin) ==
    /\ Len(registered) < MaxRegistered
    /\ plugins' = SortPlugins(Append(plugins, plugin))
    /\ registered' = Append(registered, plugin)
    /\ UNCHANGED <<engineVars, usageVars, transformVars, toolVars, callVars, pluginVars>>

\* remove(pluginName)
Remove(pluginName) ==
    /\ plugins' = SelectSeq(plugins, LAMBDA p : p.name # pluginName)
    /\ registered' = SelectSeq(registered, LAMBDA p : p.name # pluginName)
    /\ UNCHANGED <<engineVars, usageVars, transformVars, toolVars, callVars, pluginVars>>

NextManager ==
    \/ \E plugin \in ManagerPluginPool : Use(plugin)
    \/ \E plugin \in ManagerPluginPool : Remove(plugin.name)

SpecManager == InitManager /\ [][NextManager]_vars

-----------------------------------------------------------------------------
(* StreamEventManager.accumulateUsage *)

\* a usage record is a function from the keys it has to their values; the
\* keys inputTokenDetails and outputTokenDetails hold records of counts
MainTokens == {"inputTokens", "outputTokens", "totalTokens"}
InputDetailTokens == {"cacheReadTokens", "cacheWriteTokens", "noCacheTokens"}
OutputDetailTokens == {"reasoningTokens", "textTokens"}

\* (record.key || 0)
OrZero(record, key) == IF key \in DOMAIN record THEN record[key] ELSE 0

\* record.key = value
WithKey(record, key, value) ==
    [k \in DOMAIN record \cup {key} |-> IF k = key THEN value ELSE record[k]]

\* 'totalTokens' in usage || 'inputTokens' in usage || 'outputTokens' in usage
IsLanguageModelUsage(u) == MainTokens \cap DOMAIN u # {}

\* both token counts and neither detail field
IsImageModelUsage(u) ==
    /\ "inputTokens" \in DOMAIN u
    /\ "outputTokens" \in DOMAIN u
    /\ "inputTokenDetails" \notin DOMAIN u
    /\ "outputTokenDetails" \notin DOMAIN u

\* tokens and neither inputTokens nor outputTokens
IsEmbeddingModelUsage(u) ==
    /\ "tokens" \in DOMAIN u
    /\ "inputTokens" \notin DOMAIN u
    /\ "outputTokens" \notin DOMAIN u

\* target.key = (target.key || 0) + (source.key || 0), for each key of keys
AddTokens(target, source, keys) ==
    [k \in DOMAIN target \cup keys |->
        IF k \in keys THEN OrZero(target, k) + OrZero(source, k) ELSE target[k]]

\* if (source.detail) { if (!target.detail) target.detail = {...}; target.detail.x = ... }
AddDetails(target, source, detail, keys) ==
    IF detail \in DOMAIN source
    THEN WithKey(target, detail,
                 AddTokens(IF detail \in DOMAIN target THEN target[detail] ELSE EmptyFn,
                           source[detail], keys))
    ELSE target

\* an accumulation that overwrites the counts of the target
AccumulateUsageOverwrites(target, source) ==
    [target |-> [k \in DOMAIN target \cup DOMAIN source |->
                    IF k \in DOMAIN source THEN source[k] ELSE target[k]],
     warned |-> FALSE]

\* accumulateUsage(target, source): the target after the call, and whether
\* console.warn was called
AccumulateUsage(target, source) ==
    IF IsLanguageModelUsage(target) /\ IsLanguageModelUsage(source)
    THEN [target |-> AddDetails(AddDetails(AddTokens(target, source, MainTokens),
                                           source, "inputTokenDetails", InputDetailTokens),
                                source, "outputTokenDetails", OutputDetailTokens),
          warned |-> FALSE]
    ELSE IF IsImageModelUsage(target) /\ IsImageModelUsage(source)
    THEN [target |-> AddTokens(target, source, MainTokens), warned |-> FALSE]
    ELSE IF IsEmbeddingModelUsage(target) /\ IsEmbeddingModelUsage(source)
    THEN [target |-> AddTokens(target, source, {"tokens"}), warned |-> FALSE]
    ELSE [target |-> target, warned |-> TRUE]

\* the usage records given to accumulateUsage
TokenCounts == {5, 10}
MainTokenSets == {MainTokens, {"inputTokens"}, {"outputTokens", "totalTokens"}}
DetailSets == {{}, {"inputTokenDetails"}, {"inputTokenDetails", "outputTokenDetails"}}

MainUsage(keys, n) ==
    [k \in keys |-> IF k = "inputTokens" THEN n
                    ELSE IF k = "outputTokens" THEN 2 * n ELSE 3 * n]

DetailUsage(details) ==
    [d \in details |-> IF d = "inputTokenDetails"
                       THEN [cacheReadTokens |-> 3, noCacheTokens |-> 2]
                       ELSE [reasoningTokens |-> 4, textTokens |-> 6]]

LanguageModelUsages ==
    {MainUsage(keys, n) @@ DetailUsage(details) :
        keys \in MainTokenSets, n \in TokenCounts, details \in DetailSets \ {{}}}

ImageModelUsages == {MainUsage(MainTokens, n) : n \in TokenCounts}

EmbeddingModelUsages == {[tokens |-> n] : n \in TokenCounts}

\* Partial<LanguageModelUsage> without the optional detail fields
PartialUsages == {MainUsage(keys, n) : keys \in MainTokenSets \ {MainTokens}, n \in TokenCounts}

UsageRecords ==
    LanguageModelUsages \cup ImageModelUsages \cup EmbeddingModelUsages \cup PartialUsages

InitUsage ==
    /\ EngineInit({<<>>})
    /\ NoManager
    /\ NoTransform
    /\ \E u \in UsageRecords :
          usage = [initial |-> u, applied |-> <<>>, target |-> u, warnings |-> 0]

\* manager.accumulateUsage(target, source)
Accumulate(source) ==
    /\ Len(usage.applied) < MaxSources
    /\ LET r == AccumulateUsage(usage.target, source)
       IN usage' = [usage EXCEPT !.applied = Append(@, source),
                                 !.target = r.target,
                                 !.warnings = @ + (IF r.warned THEN 1 ELSE 0)]
    /\ UNCHANGED <<engineVars, managerVars, transformVars, toolVars, callVars, pluginVars>>

NextUsage == \E source \in UsageRecords : Accumulate(source)

SpecUsage == InitUsage /\ [][NextUsage]_vars

-----------------------------------------------------------------------------
(* The prompt-tool-use stream transform: the chunks of a stream *)

\* an optional usage record
NoUsageGiven == [def |-> FALSE, u |-> EmptyFn]
UsageGiven(u) == [def |-> TRUE, u |-> u]

\* a stream part; level and step tell the stream and the step that produced it
Chunk(type, level, step, text, u, finishReason) ==
    [type |-> type, level |-> level, step |-> step, text |-> text, usage |-> u,
     finishReason |-> finishReason, tool |-> <<>>]

\* TOOL_USE_TAG_CONFIG: each tag is two symbols long, so that a delta can
\* end inside it; the tags end with the same symbol
OpeningTag == <<"<tool", "_use>">>
ClosingTag == <<"</tool", "_use>">>

\* the tag occurs in the buffer at position i
MatchAt(buffer, i, tag) ==
    /\ i + Len(tag) - 1 <= Len(buffer)
    /\ \A j \in 1..Len(tag) : buffer[i + j - 1] = tag[j]

\* the buffer ends, from position i on, with a proper beginning of the tag
PartialAt(buffer, i, tag) ==
    /\ Len(buffer) - i + 1 < Len(tag)
    /\ \A j \in 1..(Len(buffer) - i + 1) : buffer[i + j - 1] = tag[j]

\* a tag that is found only when the buffer holds all of it
PotentialStartIndexOfWholeTag(buffer, tag) ==
    LET full == {i \in 1..Len(buffer) : MatchAt(buffer, i, tag)}
    IN IF full # {} THEN CHOOSE i \in full : \A j \in full : i <= j ELSE 0

\* where the next tag starts or may start in the buffer, 0 if nowhere
PotentialStartIndex(buffer, tag) ==
    LET full == {i \in 1..Len(buffer) : MatchAt(buffer, i, tag)}
        part == {i \in 1..Len(buffer) : PartialAt(buffer, i, tag)}
        Least(S) == CHOOSE i \in S : \A j \in S : i <= j
    IN IF full # {} THEN Least(full) ELSE IF part # {} THEN Least(part) ELSE 0

Fragment(content, inside) ==
    IF content = <<>> THEN <<>> ELSE <<[content |-> content, isTagContent |-> inside]>>

\* the scanning loop of TagExtractor.processText
RECURSIVE Scan(_, _, _)
Scan(buffer, inside, results) ==
    LET tag == IF inside THEN ClosingTag ELSE OpeningTag
        i == PotentialStartIndex(buffer, tag)
    IN IF i = 0
       THEN [buffer |-> <<>>, inside |-> inside,
             results |-> results \o Fragment(buffer, inside)]
       ELSE LET found == results \o Fragment(SubSeq(buffer, 1, i - 1), inside)
            IN IF MatchAt(buffer, i, tag)
               THEN Scan(SubSeq(buffer, i + Len(tag), Len(buffer)), ~inside, found)
               ELSE [buffer |-> SubSeq(buffer, i, Len(buffer)), inside |-> inside,
                     results |-> found]

\* tagExtractor.processText(text): the extractor afterwards and the fragments
ProcessText(tag, text) == Scan(tag.buffer \o text, tag.inside, <<>>)

\* new TagExtractor(TOOL_USE_TAG_CONFIG)
NewTagExtractor == [buffer |-> <<>>, inside |-> FALSE]

Contains(text, tag) == \E i \in 1..Len(text) : MatchAt(text, i, tag)

\* the body of a tool_use block: <name>..</name><arguments>..</arguments>,
\* held as one symbol of the text
BlockBodies ==
    [call |-> [name |-> "calc", arguments |-> "{}", json |-> TRUE],
     search |-> [name |-> "search", arguments |-> "{\"query\":\"x\"}", json |-> TRUE],
     nope |-> [name |-> "nope", arguments |-> "{}", json |-> TRUE],
     raw |-> [name |-> "calc", arguments |-> "x", json |-> FALSE]]

IsBody(sym) == sym \in DOMAIN BlockBodies

\* the number of characters of a symbol
StringLength(str) ==
    CASE str = "calc" -> 4 [] str = "search" -> 6 [] str = "nope" -> 4
      [] str = "{}" -> 2 [] str = "{\"query\":\"x\"}" -> 13 [] str = "x" -> 1

Width(sym) ==
    CASE sym = "<tool" -> 5
      [] sym = "_use>" -> 5
      [] sym = "</tool" -> 6
      [] sym = "long" -> 80
      [] IsBody(sym) -> 36 + StringLength(BlockBodies[sym].name)
                           + StringLength(BlockBodies[sym].arguments)
      [] OTHER -> 1

\* the number of characters of the first n symbols of a text
RECURSIVE Offset(_, _)
Offset(c, n) == IF n = 0 THEN 0 ELSE Offset(c, n - 1) + Width(c[n])

\* toolUsePattern.exec(c) with the pattern's lastIndex: the leftmost
\* <tool_use> at or after lastIndex that a <name>..</arguments> body and then
\* a </tool_use> follow, with the first such body and the first such closing
\* tag (the groups are lazy); 0 for null
Exec(c, lastIndex) ==
    LET Closes(j) == {k \in (j + 1)..Len(c) : MatchAt(c, k, ClosingTag)}
        Bodies(i) == {j \in (i + Len(OpeningTag))..Len(c) : IsBody(c[j]) /\ Closes(j) # {}}
        starts == {i \in 1..Len(c) : /\ MatchAt(c, i, OpeningTag)
                                     /\ Offset(c, i - 1) >= lastIndex
                                     /\ Bodies(i) # {}}
        Least(S) == CHOOSE x \in S : \A y \in S : x <= y
    IN IF starts = {} THEN [index |-> 0, body |-> 0, end |-> 0]
       ELSE LET i == Least(starts)
                j == Least(Bodies(i))
            IN [index |-> i, body |-> j, end |-> Least(Closes(j)) + Len(ClosingTag) - 1]

\* switch (toolName.toLowerCase()): the legacy names of two tools
CanonicalName(toolName) ==
    CASE toolName = "search" -> "mcp__CherryHub__search"
      [] toolName = "exec" -> "mcp__CherryHub__exec"
      [] OTHER -> toolName

\* contentToProcess.replace(fullMatch, ''): the first occurrence goes
ReplaceFirst(c, fullMatch) ==
    LET n == Len(fullMatch)
        at == {i \in 1..(Len(c) - n + 1) : SubSeq(c, i, i + n - 1) = fullMatch}
        i == CHOOSE x \in at : \A y \in at : x <= y
    IN IF at = {} THEN c ELSE SubSeq(c, 1, i - 1) \o SubSeq(c, i + n, Len(c))

ToolUseResult(toolName, idx, body, status) ==
    [id |-> <<toolName, idx>>, toolName |-> toolName,
     arguments |-> [parsed |-> body.json, text |-> body.arguments],
     status |-> status]

\* while ((match = toolUsePattern.exec(contentToProcess)) !== null): the
\* pattern is global, so each search starts at the lastIndex the match before
\* left, in the content as it is now
RECURSIVE FindAll(_, _, _, _, _)
FindAll(c, tools, lastIndex, idx, results) ==
    LET match == Exec(c, lastIndex)
    IN IF match.index = 0 THEN [results |-> results, content |-> c]
       ELSE LET body == BlockBodies[c[match.body]]
                toolName == CanonicalName(body.name)
                end == Offset(c, match.end)
            IN IF toolName \notin DOMAIN tools.o
               THEN FindAll(c, tools, end, idx, results)
               ELSE FindAll(ReplaceFirst(c, SubSeq(c, match.index, match.end)), tools,
                            end, idx + 1,
                            Append(results, ToolUseResult(toolName, idx, body, "pending")))

\* defaultParseToolUse(content, tools): a content without <tool_use> is
\* wrapped in the tags first
DefaultParseToolUse(content, tools) ==
    IF content = <<>> \/ tools.t # "obj" \/ DOMAIN tools.o = {}
    THEN [results |-> <<>>, content |-> content]
    ELSE FindAll(IF Contains(content, OpeningTag) THEN content
                 ELSE OpeningTag \o <<"\n">> \o content \o <<"\n">> \o ClosingTag,
                 tools, 0, 0, <<>>)

\* parsedTools.filter((t) => t.status === 'pending') of the step's text
ValidToolUses(textBuffer, tools) ==
    SelectSeq(DefaultParseToolUse(textBuffer, tools).results,
              LAMBDA t : t.status = "pending")

\* context.mcpTools is set and has a tool
HasMcpTools(c) == c.mcpTools.t = "obj" /\ DOMAIN c.mcpTools.o # {}

\* if (!context.accumulatedUsage) context.accumulatedUsage = {...}
InitialAccumulatedUsage ==
    [inputTokens |-> 0, outputTokens |-> 0, totalTokens |-> 0,
     reasoningTokens |-> 0, cachedInputTokens |-> 0]

\* the context after transformStream(_, context)() has run
TransformContext(c) ==
    IF c.mcpTools.t # "obj" \/ c.accumulatedUsage.def THEN c
    ELSE [c EXCEPT !.accumulatedUsage = UsageGiven(InitialAccumulatedUsage)]

\* the transform transformStream(_, context)() returns, and the provider
\* stream it is applied to
NewTransform(c) ==
    [identity |-> c.mcpTools.t # "obj",
     textBuffer |-> <<>>,
     pendingTextStart |-> 0,
     hasStartedText |-> FALSE,
     tagExtractor |-> NewTagExtractor,
     phase |-> "start",
     step |-> 0,
     rest |-> <<>>]

Level == Len(pipes)
Pipe == pipes[Level]
SetPipe(p) == [pipes EXCEPT ![Level] = p]

\* a pipe that skips the finish part and reads on
PipedPastFinish(level, chunks) ==
    IF level = 1 THEN chunks
    ELSE SelectSeq(chunks, LAMBDA ch : ch.type \notin {"start", "finish"})

\* pipeRecursiveStream: the start part of a nested stream is skipped, and the
\* reading ends at its finish part
Piped(level, chunks) ==
    IF level = 1 THEN chunks
    ELSE LET finishes == {k \in 1..Len(chunks) : chunks[k].type = "finish"}
             last == IF finishes = {} THEN Len(chunks)
                     ELSE (CHOOSE k \in finishes : \A j \in finishes : k <= j) - 1
         IN SelectSeq(SubSeq(chunks, 1, last), LAMBDA ch : ch.type # "start")

\* if (chunk.usage && context.accumulatedUsage) accumulateUsage(...)
Accumulated(c, u) ==
    IF u.def /\ c.accumulatedUsage.def
    THEN [c EXCEPT !.accumulatedUsage =
             UsageGiven(AccumulateUsage(c.accumulatedUsage.u, u.u).target)]
    ELSE c

\* a finish part that keeps the provider's totalUsage
FinishChunkOfProvider(chunk, c) == chunk

\* { ...chunk, totalUsage: context.accumulatedUsage }
FinishChunk(chunk, c) == [chunk EXCEPT !.usage = c.accumulatedUsage]

\* no follow-up call was issued at a step
NoRecursiveCall == [issued |-> FALSE, messages |-> <<>>, tools |-> UndefVal]

\* the texts of a step, the usage of its finish-step, the provider's totals
StepTexts ==
    {<<>>,
     <<"h">>,
     <<"<tool", "h">>,
     <<"<tool", "_use>", "call", "</tool", "_use>">>,
     <<"h", "<tool", "_use>", "call", "</tool", "_use>", "w">>}

\* step texts with the blocks of several tools: a known one, an alias, and
\* three blocks of which the second follows a long text and the third is
\* adjacent to the second
ToolStepTexts ==
    {<<"h">>,
     <<"<tool", "_use>", "call", "</tool", "_use>">>,
     <<"<tool", "_use>", "search", "</tool", "_use>">>,
     <<"<tool", "_use>", "call", "</tool", "_use>", "long",
       "<tool", "_use>", "call", "</tool", "_use>",
       "<tool", "_use>", "call", "</tool", "_use>">>}

StepUsages ==
    {NoUsageGiven,
     UsageGiven(MainUsage(MainTokens, 5)),
     UsageGiven(MainUsage(MainTokens, 10) @@ DetailUsage({"inputTokenDetails", "outputTokenDetails"}))}

ProviderTotals == {NoUsageGiven, UsageGiven(MainUsage(MainTokens, 5))}

\* a delta holds one symbol or more of the text of its step
DeltaLengths == UNION {1..Len(text) : text \in StepTexts \cup ToolStepTexts}

ToolSets == {UndefVal, Obj(("calc" :> 1) @@ ("search" :> 1))}

\* a top-level stream whose transform was built from the request context
InitTransform ==
    /\ basePlugins = <<>>
    /\ stack = <<>>
    /\ outcome = [st |-> "ok", result |-> Result(<<>>), err |-> NoError]
    /\ streams = <<>>
    /\ nested = 0
    /\ depthErrors = 0
    /\ NoManager
    /\ NoUsage
    /\ \E tools \in ToolSets :
          LET c == [CreateContext(Params(ModelId("gpt-4"), EmptyFn)) EXCEPT !.mcpTools = tools]
          IN /\ ctx = TransformContext(c)
             /\ pipes = <<NewTransform(c)>>
    /\ out = <<>>
    /\ fed = <<>>
    /\ extractor = <<>>
    /\ parse = <<>>
    /\ hookCalls = <<>>
    /\ promptPlugin = <<>>

TransformFrame == UNCHANGED <<basePlugins, stack, outcome, streams, nested, depthErrors,
                              managerVars, usageVars, toolVars, callVars, pluginVars>>

\* the provider sends 'start': any other part is enqueued as it is
StreamStart ==
    /\ pipes # <<>>
    /\ Pipe.phase = "start"
    /\ pipes' = SetPipe([Pipe EXCEPT !.phase = "between"])
    /\ out' = out \o Piped(Level, <<Chunk("start", Level, 0, <<>>, NoUsageGiven, "")>>)
    /\ UNCHANGED <<ctx, fed>>
    /\ TransformFrame

\* the provider sends 'start-step' and will send the text of this step (a
\* stream that passes through the identity transform gets short texts)
StartStep(text) ==
    /\ pipes # <<>>
    /\ Pipe.phase = "between"
    /\ Len(fed) < MaxSteps
    /\ Pipe.identity => Len(text) <= 1
    /\ (~Pipe.identity /\ HasMcpTools(ctx) /\ ValidToolUses(text, ctx.mcpTools) # <<>>)
            => Len(fed) + 1 < MaxSteps
    /\ LET step == Len(fed) + 1
       IN /\ pipes' = SetPipe([Pipe EXCEPT !.phase = "open", !.step = step, !.rest = text])
          /\ out' = Append(out, Chunk("start-step", Level, step, <<>>, NoUsageGiven, ""))
          /\ fed' = Append(fed, [level |-> Level, text |-> text, usage |-> NoUsageGiven,
                                 textEnded |-> FALSE, finished |-> FALSE,
                                 results |-> <<>>, recursive |-> NoRecursiveCall,
                                 trailing |-> FALSE])
    /\ UNCHANGED ctx
    /\ TransformFrame

\* the provider sends 'text-start': the transform holds it
TextStart ==
    /\ pipes # <<>>
    /\ Pipe.phase = "open"
    /\ LET chunk == Chunk("text-start", Level, Pipe.step, <<>>, NoUsageGiven, "")
       IN IF Pipe.identity
          THEN /\ pipes' = SetPipe([Pipe EXCEPT !.phase = "text"])
               /\ out' = Append(out, chunk)
          ELSE /\ pipes' = SetPipe([Pipe EXCEPT !.phase = "text",
                                                !.pendingTextStart = Pipe.step])
               /\ out' = out
    /\ UNCHANGED <<ctx, fed>>
    /\ TransformFrame

\* the parts enqueued for the fragments of one text-delta: the held
\* text-start before the first fragment outside the tags, if no text-start
\* was sent by this transform yet, and a text-delta for each such fragment
RECURSIVE Filtered(_, _, _)
Filtered(p, results, level) ==
    IF results = <<>> THEN [pipe |-> p, chunks |-> <<>>]
    ELSE LET result == Head(results)
         IN IF ~result.isTagContent /\ result.content # <<>>
            THEN LET flush == ~p.hasStartedText /\ p.pendingTextStart # 0
                     q == IF flush THEN [p EXCEPT !.hasStartedText = TRUE,
                                                  !.pendingTextStart = 0]
                          ELSE p
                     r == Filtered(q, Tail(results), level)
                 IN [pipe |-> r.pipe,
                     chunks |->
                        (IF flush
                         THEN <<Chunk("text-start", level, p.pendingTextStart, <<>>,
                                      NoUsageGiven, "")>>
                         ELSE <<>>)
                        \o <<Chunk("text-delta", level, p.step, result.content,
                                   NoUsageGiven, "")>>
                        \o r.chunks]
            ELSE Filtered(p, Tail(results), level)

\* the provider sends a 'text-delta' with the next n symbols of the text
TextDelta(n) ==
    /\ pipes # <<>>
    /\ Pipe.phase = "text"
    /\ n \in 1..Len(Pipe.rest)
    /\ LET text == SubSeq(Pipe.rest, 1, n)
           rest == SubSeq(Pipe.rest, n + 1, Len(Pipe.rest))
       IN IF Pipe.identity
          THEN /\ pipes' = SetPipe([Pipe EXCEPT !.rest = rest])
               /\ out' = Append(out, Chunk("text-delta", Level, Pipe.step, text,
                                           NoUsageGiven, ""))
          ELSE LET extraction == ProcessText(Pipe.tagExtractor, text)
                   p == [Pipe EXCEPT !.rest = rest,
                                     !.textBuffer = @ \o text,
                                     !.tagExtractor = [buffer |-> extraction.buffer,
                                                       inside |-> extraction.inside]]
                   r == Filtered(p, extraction.results, Level)
               IN /\ pipes' = SetPipe(r.pipe)
                  /\ out' = out \o r.chunks
    /\ UNCHANGED <<ctx, fed>>
    /\ TransformFrame

\* the provider sends 'text-end'
TextEnd ==
    /\ pipes # <<>>
    /\ Pipe.phase = "text"
    /\ Pipe.rest = <<>>
    /\ pipes' = SetPipe([Pipe EXCEPT !.phase = "closed"])
    /\ out' = IF Pipe.identity \/ Pipe.hasStartedText
              THEN Append(out, Chunk("text-end", Level, Pipe.step, <<>>, NoUsageGiven, ""))
              ELSE out
    /\ fed' = [fed EXCEPT ![Pipe.step].textEnded = TRUE]
    /\ UNCHANGED ctx
    /\ TransformFrame

\* a tool part of the stream
ToolChunk(type, level, step, result) ==
    [Chunk(type, level, step, <<>>, NoUsageGiven, "") EXCEPT !.tool = result]

\* an executor that stops at the first tool that fails
ExecuteToolsUntilFailure(validToolUses, failing, level, step) ==
    LET n == IF failing = {} THEN Len(validToolUses)
             ELSE CHOOSE i \in failing : \A j \in failing : i <= j
        results == [i \in 1..n |->
                       [validToolUses[i] EXCEPT
                           !.status = IF i \in failing THEN "error" ELSE "executed"]]
    IN [results |-> results,
        chunks |-> [k \in 1..(2 * n) |->
                       LET i == (k + 1) \div 2
                       IN IF k % 2 = 1
                          THEN ToolChunk("tool-call", level, step, validToolUses[i])
                          ELSE ToolChunk(IF i \in failing THEN "tool-error" ELSE "tool-result",
                                         level, step, results[i])]]

\* toolExecutor.executeTools(validToolUses, tools, controller): every tool is
\* run, the tools in `failing` fail; each tool is announced on the stream and
\* its outcome follows
ExecuteTools(validToolUses, failing, level, step) ==
    LET results == [i \in 1..Len(validToolUses) |->
                       [validToolUses[i] EXCEPT
                           !.status = IF i \in failing THEN "error" ELSE "executed"]]
    IN [results |-> results,
        chunks |-> [k \in 1..(2 * Len(validToolUses)) |->
                       LET i == (k + 1) \div 2
                       IN IF k % 2 = 1
                          THEN ToolChunk("tool-call", level, step, validToolUses[i])
                          ELSE ToolChunk(IF i \in failing THEN "tool-error" ELSE "tool-result",
                                         level, step, results[i])]]

\* toolExecutor.formatToolResults(executedResults): one text for the user turn
FormatToolResults(executedResults) ==
    [i \in 1..Len(executedResults) |->
        [toolName |-> executedResults[i].toolName, status |-> executedResults[i].status]]

\* a step-finish event that keeps the finishReason of the provider's part
SendStepFinishEventAsIs(chunk, c, finishReason) ==
    [ctx |-> Accumulated(c, chunk.usage), chunk |-> chunk]

\* sendStepFinishEvent(controller, chunk, context, finishReason)
SendStepFinishEvent(chunk, c, finishReason) ==
    [ctx |-> Accumulated(c, chunk.usage),
     chunk |-> [chunk EXCEPT !.finishReason = finishReason]]

\* params.messages || []
MessagesIn(params) ==
    IF "messages" \in DOMAIN params.data THEN params.data["messages"].o ELSE <<>>

Messages(list) == [t |-> "list", n |-> 0, o |-> list]

\* buildRecursiveParams: the messages of the follow-up call
NewMessages(c, textBuffer, toolResultsText) ==
    MessagesIn(c.originalParams)
    \o (IF textBuffer # <<>> THEN <<[role |-> "assistant", content |-> textBuffer]>>
        ELSE <<>>)
    \o <<[role |-> "user", content |-> toolResultsText]>>

\* the provider sends 'finish-step' with the usage u
FinishStep(u) ==
    /\ pipes # <<>>
    /\ Pipe.phase = "closed"
    /\ LET chunk == Chunk("finish-step", Level, Pipe.step, <<>>, u, "stop")
           validToolUses == ValidToolUses(Pipe.textBuffer, ctx.mcpTools)
       IN IF Pipe.identity
          THEN /\ pipes' = SetPipe([Pipe EXCEPT !.phase = "between"])
               /\ out' = Append(out, chunk)
               /\ ctx' = ctx
               /\ fed' = [fed EXCEPT ![Pipe.step].usage = u, ![Pipe.step].finished = TRUE]
          ELSE IF /\ HasMcpTools(ctx)
                  /\ ~ctx.hasExecutedToolsInCurrentStep
                  /\ validToolUses # <<>>
          THEN \* the tools are handed to the executor
               /\ ctx' = [ctx EXCEPT !.hasExecutedToolsInCurrentStep = TRUE]
               /\ pipes' = SetPipe([Pipe EXCEPT !.phase = "executing"])
               /\ out' = out
               /\ fed' = [fed EXCEPT ![Pipe.step].usage = u,
                                     ![Pipe.step].finished = TRUE,
                                     ![Pipe.step].results = validToolUses]
          ELSE /\ ctx' = Accumulated(ctx, u)
               /\ out' = Append(out, chunk)
               /\ pipes' = SetPipe([Pipe EXCEPT !.phase = "between", !.textBuffer = <<>>])
               /\ fed' = [fed EXCEPT ![Pipe.step].usage = u, ![Pipe.step].finished = TRUE]
    /\ TransformFrame

\* executeTools has settled, the tools in `failing` having failed:
\* sendStepFinishEvent, buildRecursiveParams, then handleRecursiveCall, whose
\* nested stream gets a transform of its own
ToolsExecuted(failing) ==
    /\ pipes # <<>>
    /\ Pipe.phase = "executing"
    /\ failing \subseteq 1..Len(fed[Pipe.step].results)
    /\ LET chunk == Chunk("finish-step", Level, Pipe.step, <<>>, fed[Pipe.step].usage, "stop")
           executed == ExecuteTools(fed[Pipe.step].results, failing, Level, Pipe.step)
           sent == SendStepFinishEvent(chunk, ctx, "tool-calls")
           newMessages == NewMessages(ctx, Pipe.textBuffer,
                                      FormatToolResults(executed.results))
           c == [sent.ctx EXCEPT
                    !.hasExecutedToolsInCurrentStep = FALSE,
                    !.originalParams.data =
                        Spread(@, "messages" :> Messages(newMessages))]
       IN /\ out' = out \o executed.chunks \o <<sent.chunk>>
          /\ ctx' = TransformContext(c)
          /\ pipes' = Append(SetPipe([Pipe EXCEPT !.phase = "piping"]), NewTransform(c))
          /\ fed' = [fed EXCEPT ![Pipe.step].results = executed.results,
                                ![Pipe.step].recursive =
                                    [issued |-> TRUE, messages |-> newMessages,
                                     tools |-> ctx.mcpTools]]
    /\ TransformFrame

\* the provider sends 'finish' with a totalUsage of its own, and possibly one
\* more part after it; the finish of a nested stream ends the piping and the
\* transform call of the outer stream
Finish(total, trailing) ==
    /\ pipes # <<>>
    /\ Pipe.phase = "between"
    /\ Pipe.step # 0
    /\ LET chunk == Chunk("finish", Level, Pipe.step, <<>>, total, "stop")
           sent == IF Pipe.identity THEN chunk ELSE FinishChunk(chunk, ctx)
           more == IF trailing
                   THEN <<Chunk("raw", Level, Pipe.step, <<>>, NoUsageGiven, "")>>
                   ELSE <<>>
       IN /\ out' = out \o Piped(Level, <<sent>> \o more)
          /\ pipes' = IF Level = 1
                      THEN SetPipe([Pipe EXCEPT !.phase = "ended",
                                                !.pendingTextStart = 0,
                                                !.hasStartedText = FALSE])
                      ELSE [SubSeq(pipes, 1, Level - 1) EXCEPT
                               ![Level - 1].phase = "between"]
    /\ fed' = [fed EXCEPT ![Pipe.step].trailing = trailing]
    /\ UNCHANGED ctx
    /\ TransformFrame

NextTransform ==
    \/ StreamStart
    \/ \E text \in StepTexts : StartStep(text)
    \/ TextStart
    \/ \E n \in DeltaLengths : TextDelta(n)
    \/ TextEnd
    \/ \E u \in StepUsages : FinishStep(u)
    \/ ToolsExecuted({})
    \/ \E total \in ProviderTotals : Finish(total, FALSE)

SpecTransform == InitTransform /\ [][NextTransform]_vars

\* the same stream with the texts of ToolStepTexts, tools that may fail and
\* providers that may send a part after their finish part; no usage is given
NextTools ==
    \/ StreamStart
    \/ \E text \in ToolStepTexts : StartStep(text)
    \/ TextStart
    \/ \E n \in DeltaLengths : TextDelta(n)
    \/ TextEnd
    \/ FinishStep(NoUsageGiven)
    \/ \E failing \in SUBSET (1..MaxBlocks) : ToolsExecuted(failing)
    \/ \E trailing \in BOOLEAN : Finish(NoUsageGiven, trailing)

SpecTools == InitTransform /\ [][NextTools]_vars

-----------------------------------------------------------------------------
(* createPromptToolUsePlugin({ enabled }): one plugin run by itself *)

\* transformParams of a plugin created with { enabled }: the returned params
PluginTransformParams(enabled, data, c) ==
    IF ~enabled THEN data ELSE PromptToolUseTransformParams(data, c)

\* transformParams of a plugin created with { enabled }: the context it leaves
PluginContext(enabled, data, c, model) ==
    IF ~enabled THEN c ELSE PromptToolUseContext(data, c, model)

\* the tools of a request: none, an empty set, prompt tools, provider tools,
\* both kinds
PluginToolSets ==
    {UndefVal,
     Obj(EmptyFn),
     Obj("calc" :> 1),
     Obj("g" :> 2),
     Obj(("calc" :> 1) @@ ("g" :> 2)),
     Obj(("calc" :> 1) @@ ("search" :> 1) @@ ("g" :> 2) @@ ("w" :> 2))}

PluginData(tools, system) ==
    (IF tools = UndefVal THEN EmptyFn ELSE "tools" :> tools)
    @@ (IF system = 0 THEN EmptyFn ELSE "system" :> Num(system))

\* the texts of the steps of the provider's stream
PluginStepTexts == {<<>>, <<"h">>}

\* a plugin created with a config in a frame of a request, top-level or
\* recursive, whose context holds prompt tools or not
InitPlugin ==
    /\ basePlugins = <<>>
    /\ stack = <<>>
    /\ outcome = [st |-> "ok", result |-> Result(<<>>), err |-> NoError]
    /\ streams = <<>>
    /\ nested = 0
    /\ depthErrors = 0
    /\ NoManager
    /\ NoUsage
    /\ pipes = <<>> /\ out = <<>> /\ fed = <<>>
    /\ extractor = <<>>
    /\ parse = <<>>
    /\ hookCalls = <<>>
    /\ \E enabled \in BOOLEAN, tools \in PluginToolSets, system \in {0, 1},
          isRecursiveCall \in BOOLEAN, mcpTools \in ToolSets :
          LET params == Params(ModelId("gpt-4"), PluginData(tools, system))
              c == [CreateContext(params) EXCEPT
                       !.mcpTools = mcpTools,
                       !.isRecursiveCall = isRecursiveCall,
                       !.recursiveDepth = IF isRecursiveCall THEN 1 ELSE 0]
          IN /\ ctx = c
             /\ promptPlugin = [enabled |-> enabled, params |-> params.data,
                                called |-> FALSE, returned |-> EmptyFn,
                                before |-> c, after |-> c]

PluginFrame == UNCHANGED <<basePlugins, stack, outcome, streams, nested, depthErrors,
                           managerVars, usageVars, toolVars, callVars>>

\* plugin.transformParams(params, context)
CallTransformParams ==
    /\ promptPlugin # <<>>
    /\ ~promptPlugin.called
    /\ LET p == promptPlugin
           c == PluginContext(p.enabled, p.params, ctx, ctx.originalParams.model)
       IN /\ ctx' = c
          /\ promptPlugin' = [p EXCEPT !.called = TRUE,
                                       !.returned = PluginTransformParams(p.enabled, p.params, ctx),
                                       !.after = c]
    /\ UNCHANGED <<pipes, out, fed>>
    /\ PluginFrame

\* plugin.transformStream(params, context)(): the transform the provider's
\* stream is piped through
CallTransformStream ==
    /\ promptPlugin # <<>>
    /\ promptPlugin.called
    /\ pipes = <<>>
    /\ pipes' = <<NewTransform(ctx)>>
    /\ ctx' = TransformContext(ctx)
    /\ UNCHANGED <<out, fed, promptPlugin>>
    /\ PluginFrame

NextPlugin ==
    \/ CallTransformParams
    \/ CallTransformStream
    \/ StreamStart
    \/ \E text \in PluginStepTexts : StartStep(text)
    \/ TextStart
    \/ \E n \in DeltaLengths : TextDelta(n)
    \/ TextEnd
    \/ FinishStep(NoUsageGiven)
    \/ Finish(NoUsageGiven, FALSE)

SpecPlugin == InitPlugin /\ [][NextPlugin]_vars

-----------------------------------------------------------------------------
(* defaultParseToolUse applied to a step text *)

\* a piece of a step text: a text or a tool_use block around a body
TextPieces == {"h", "long"}
Pieces == TextPieces \cup DOMAIN BlockBodies

PieceText(piece) ==
    IF IsBody(piece) THEN OpeningTag \o <<piece>> \o ClosingTag ELSE <<piece>>

RECURSIVE TextOf(_)
TextOf(pieces) ==
    IF pieces = <<>> THEN <<>> ELSE PieceText(Head(pieces)) \o TextOf(Tail(pieces))

\* the step texts of up to MaxBlocks pieces, and the inner content of one
\* block, which comes without the tags
ParseInputs ==
    {[pieces |-> ps, content |-> TextOf(ps)] :
        ps \in UNION {[1..n -> Pieces] : n \in 0..MaxBlocks}}
    \cup {[pieces |-> <<b>>, content |-> <<b>>] : b \in DOMAIN BlockBodies}

ParseToolSets ==
    {UndefVal, Obj(EmptyFn), Obj("calc" :> 1), Obj(("calc" :> 1) @@ ("search" :> 1)),
     Obj(("calc" :> 1) @@ ("mcp__CherryHub__search" :> 1))}

InitParse ==
    /\ EngineInit({<<>>})
    /\ NoManager
    /\ NoUsage
    /\ pipes = <<>> /\ out = <<>> /\ fed = <<>>
    /\ extractor = <<>>
    /\ hookCalls = <<>>
    /\ promptPlugin = <<>>
    /\ \E input \in ParseInputs, tools \in ParseToolSets :
          parse = [pieces |-> input.pieces, content |-> input.content, tools |-> tools,
                   done |-> FALSE, results |-> <<>>, rest |-> <<>>]

\* const { results, content } = parseToolUse(textBuffer, tools)
ParseToolUse ==
    /\ ~parse.done
    /\ LET r == DefaultParseToolUse(parse.content, parse.tools)
       IN parse' = [parse EXCEPT !.done = TRUE, !.results = r.results, !.rest = r.content]
    /\ UNCHANGED <<engineVars, managerVars, usageVars, transformVars, extractor, callVars, pluginVars>>

NextParse == ParseToolUse

SpecParse == InitParse /\ [][NextParse]_vars

-----------------------------------------------------------------------------
(* The TagExtractor fed a text fragment by fragment *)

\* stream teardown: what is still buffered is flushed
Finalize(tag) == Fragment(tag.buffer, tag.inside)

\* the content of the fragments that are / are not tag content, concatenated
RECURSIVE ContentOf(_, _)
ContentOf(results, inside) ==
    IF results = <<>> THEN <<>>
    ELSE (IF Head(results).isTagContent = inside THEN Head(results).content ELSE <<>>)
         \o ContentOf(Tail(results), inside)

ExtractSymbols == {"h", "<tool", "_use>", "</tool"}

\* the texts of up to MaxText symbols
ExtractInputs == UNION {[1..n -> ExtractSymbols] : n \in 0..MaxText}

InitExtract ==
    /\ EngineInit({<<>>})
    /\ NoManager
    /\ NoUsage
    /\ pipes = <<>> /\ out = <<>> /\ fed = <<>>
    /\ parse = <<>>
    /\ hookCalls = <<>>
    /\ promptPlugin = <<>>
    /\ \E text \in ExtractInputs :
          extractor = [text |-> text, rest |-> text, tag |-> NewTagExtractor,
                       outside |-> <<>>, inside |-> <<>>, fragments |-> 0,
                       held |-> 0, heldOver |-> FALSE, empty |-> FALSE,
                       done |-> FALSE]

\* tagExtractor.processText(fragment) with the next n symbols of the text;
\* fragments may be empty, not two in a row
ProcessFragment(n) ==
    /\ ~extractor.done
    /\ n <= Len(extractor.rest)
    /\ n = 0 => ~extractor.empty /\ extractor.fragments > 0
    /\ LET e == ProcessText(extractor.tag, SubSeq(extractor.rest, 1, n))
       IN extractor' =
             [extractor EXCEPT
                 !.rest = SubSeq(@, n + 1, Len(@)),
                 !.tag = [buffer |-> e.buffer, inside |-> e.inside],
                 !.outside = @ \o ContentOf(e.results, FALSE),
                 !.inside = @ \o ContentOf(e.results, TRUE),
                 !.fragments = @ + 1,
                 !.held = IF e.buffer # <<>> THEN @ + 1 ELSE 0,
                 !.heldOver = @ \/ (e.buffer # <<>> /\ extractor.held >= 1),
                 !.empty = (n = 0)]
    /\ UNCHANGED <<engineVars, managerVars, usageVars, transformVars, parse, callVars, pluginVars>>

\* the text has been fed: teardown
Teardown ==
    /\ ~extractor.done
    /\ extractor.rest = <<>>
    /\ LET results == Finalize(extractor.tag)
       IN extractor' =
             [extractor EXCEPT
                 !.tag = NewTagExtractor,
                 !.outside = @ \o ContentOf(results, FALSE),
                 !.inside = @ \o ContentOf(results, TRUE),
                 !.done = TRUE]
    /\ UNCHANGED <<engineVars, managerVars, usageVars, transformVars, parse, callVars, pluginVars>>

NextExtract ==
    \/ \E n \in 0..MaxText : ProcessFragment(n)
    \/ Teardown

SpecExtract == InitExtract /\ [][NextExtract]_vars

-----------------------------------------------------------------------------
(* context.recursiveCall called by the parallel hooks of one frame *)

\* the params of the frame whose hooks are running
ConcurrentParams == Params(ModelId("gpt-4"), "temperature" :> Num(1))

\* the override hook i passes: each hook sets a key of its own
OverrideKeys == <<"messages", "topP", "seed", "maxRetries">>
HookOverrideOf(i) ==
    Partial(FALSE, UndefinedModel, OverrideKeys[((i - 1) % Len(OverrideKeys)) + 1] :> Num(1))

\* the hooks executeParallel has invoked and awaits together with Promise.all;
\* the frame runs at the depth the context had when they were invoked
InitConcurrent ==
    /\ basePlugins = <<>>
    /\ stack = <<>>
    /\ outcome = [st |-> "idle", result |-> UndefinedResult, err |-> NoError]
    /\ streams = <<>>
    /\ nested = 0
    /\ depthErrors = 0
    /\ NoManager
    /\ NoUsage
    /\ pipes = <<>> /\ out = <<>> /\ fed = <<>>
    /\ extractor = <<>>
    /\ parse = <<>>
    /\ promptPlugin = <<>>
    /\ \E n \in 1..MaxHooks, depth \in {0, 1, DefaultMaxRecursiveDepth - 1} :
          /\ ctx = [CreateContext(ConcurrentParams) EXCEPT
                       !.recursiveDepth = depth, !.isRecursiveCall = (depth > 0)]
          /\ hookCalls = [depth |-> depth,
                          isRecursive |-> (depth > 0),
                          params |-> ConcurrentParams,
                          hooks |-> [i \in 1..n |->
                                        [st |-> "idle", calls |-> 0, depth |-> 0,
                                         previousDepth |-> 0, wasRecursive |-> FALSE,
                                         params |-> ConcurrentParams]]]

ConcurrentFrame == UNCHANGED <<basePlugins, stack, outcome, streams, nested,
                               managerVars, usageVars, transformVars, toolVars, pluginVars>>

\* hook i calls context.recursiveCall(newParams) at the depth limit: it throws
HookCallThrows(i) ==
    /\ i \in 1..Len(hookCalls.hooks)
    /\ hookCalls.hooks[i].st = "idle"
    /\ hookCalls.hooks[i].calls < MaxHookCalls
    /\ DepthExceeded(ctx)
    /\ hookCalls' = [hookCalls EXCEPT !.hooks[i].calls = @ + 1]
    /\ depthErrors' = depthErrors + 1
    /\ UNCHANGED ctx
    /\ ConcurrentFrame

\* hook i calls context.recursiveCall(newParams): previousDepth and
\* wasRecursive are saved, the context is marked and the nested
\* executeWithPlugins, entered with { ...params, ...newParams }, binds
\* context.recursiveCall to its own params and runs until its first await
HookCallEnters(i) ==
    /\ i \in 1..Len(hookCalls.hooks)
    /\ hookCalls.hooks[i].st = "idle"
    /\ hookCalls.hooks[i].calls < MaxHookCalls
    /\ ~DepthExceeded(ctx)
    /\ LET params == MergeParams(ctx.recursiveCall, HookOverrideOf(i))
       IN /\ ctx' = Rebind(RecursiveCallEnter(ctx), params)
          /\ hookCalls' = [hookCalls EXCEPT
                              !.hooks[i] = [st |-> "running", calls |-> @.calls + 1,
                                            depth |-> ctx'.recursiveDepth,
                                            previousDepth |-> ctx.recursiveDepth,
                                            wasRecursive |-> ctx.isRecursiveCall,
                                            params |-> params]]
    /\ UNCHANGED depthErrors
    /\ ConcurrentFrame

\* the nested call of hook i settles: finally
HookCallSettles(i) ==
    /\ i \in 1..Len(hookCalls.hooks)
    /\ hookCalls.hooks[i].st = "running"
    /\ ctx' = RecursiveCallFinally(ctx, hookCalls.hooks[i])
    /\ hookCalls' = [hookCalls EXCEPT !.hooks[i].st = "idle"]
    /\ UNCHANGED depthErrors
    /\ ConcurrentFrame

NextConcurrent ==
    \E i \in 1..MaxHooks :
        \/ HookCallThrows(i)
        \/ HookCallEnters(i)
        \/ HookCallSettles(i)

SpecConcurrent == InitConcurrent /\ [][NextConcurrent]_vars

-----------------------------------------------------------------------------
(* RuntimeExecutor and the registry of its PluginEngine *)

\* createResolveImageModelPlugin()
InternalResolveImageModelPlugin ==
    Plugin("_internal_resolveImageModel", "post", {"resolveModel"},
           "", Handle("H3"), EmptyPatch, "none", FALSE)

\* createConfigureContextPlugin()
InternalConfigureContextPlugin ==
    Plugin("_internal_configureContext", "normal", {"configureContext"},
           "", UndefinedModel, EmptyPatch, "none", FALSE)

\* the plugins a caller gives to the executor or to its engine
ExecutorPluginPool == {LifecyclePlugin, PreWriterPlugin}

\* new RuntimeExecutor(config): this.pluginEngine = new PluginEngine(
\* config.providerId, config.plugins || [])
InitExecutor ==
    /\ EngineInit(ListsOver(ExecutorPluginPool))
    /\ NoManager
    /\ NoUsage
    /\ NoTransform

ExecutorFrame == UNCHANGED <<stack, ctx, streams, nested, depthErrors,
                             managerVars, usageVars, transformVars, toolVars, callVars, pluginVars>>

\* usePlugins(plugins): this.basePlugins.push(...plugins)
UsePlugins(list) ==
    /\ Len(basePlugins) + Len(list) <= MaxRegistered
    /\ basePlugins' = basePlugins \o list
    /\ UNCHANGED outcome
    /\ ExecutorFrame

\* use(plugin): this.basePlugins.push(plugin)
EngineUse(plugin) ==
    /\ Len(basePlugins) < MaxRegistered
    /\ basePlugins' = Append(basePlugins, plugin)
    /\ UNCHANGED outcome
    /\ ExecutorFrame

\* removePlugin(pluginName)
RemovePlugin(pluginName) ==
    /\ basePlugins' = SelectSeq(basePlugins, LAMBDA p : p.name # pluginName)
    /\ UNCHANGED outcome
    /\ ExecutorFrame

\* the plugins streamText and generateText register before they run the
\* request
InternalPlugins(model) ==
    IF model.kind = "string"
    THEN <<InternalResolveModelPlugin, InternalConfigureContextPlugin>>
    ELSE <<InternalConfigureContextPlugin>>

\* those of generateImage
InternalImagePlugins(model) ==
    IF model.kind = "string"
    THEN <<InternalResolveImageModelPlugin, InternalConfigureContextPlugin>>
    ELSE <<InternalConfigureContextPlugin>>

\* executeFirst('resolveModel', modelId, context) over the sorted plugins:
\* the plugin whose hook returns the first valid result, 0 if none does
ExecuteFirstIndex(sorted) ==
    LET valid == {i \in 1..Len(sorted) :
                     "resolveModel" \in sorted[i].hooks /\ IsValidResult(sorted[i].model)}
    IN IF valid = {} THEN 0 ELSE CHOOSE i \in valid : \A j \in valid : i <= j

\* the model the request of a call runs with: a handle as it is, a string
\* through executeFirst
ResolvedFor(list, model) ==
    LET sorted == SortPlugins(list)
        i == ExecuteFirstIndex(sorted)
    IN IF model.kind # "string"
       THEN [by |-> "", model |-> model]
       ELSE IF i = 0 THEN [by |-> "", model |-> NullModel]
       ELSE [by |-> sorted[i].name, model |-> sorted[i].model]

\* RuntimeExecutor.streamText(params), generateText(params) and
\* generateImage(params): the internal plugins are registered, then the
\* request runs with a manager over basePlugins and resolves its model
RuntimeCall(kind, model, internal) ==
    /\ Len(basePlugins) + Len(internal) <= MaxRegistered
    /\ basePlugins' = basePlugins \o internal
    /\ outcome' = [st |-> "called", kind |-> kind, model |-> model,
                   resolved |-> ResolvedFor(basePlugins', model)]
    /\ ExecutorFrame

RuntimeStreamText(model) == RuntimeCall("streamText", model, InternalPlugins(model))
RuntimeGenerateText(model) == RuntimeCall("generateText", model, InternalPlugins(model))
RuntimeGenerateImage(model) == RuntimeCall("generateImage", model, InternalImagePlugins(model))

NextExecutor ==
    \/ \E plugin \in ExecutorPluginPool : EngineUse(plugin)
    \/ \E list \in ListsOver(ExecutorPluginPool) : list # <<>> /\ UsePlugins(list)
    \/ \E plugin \in ExecutorPluginPool
                     \cup {InternalResolveModelPlugin, InternalResolveImageModelPlugin,
                           InternalConfigureContextPlugin} :
          RemovePlugin(plugin.name)
    \/ \E model \in CallModels : RuntimeStreamText(model)
    \/ \E model \in CallModels : RuntimeGenerateText(model)
    \/ \E model \in CallModels : RuntimeGenerateImage(model)

SpecExecutor == InitExecutor /\ [][NextExecutor]_vars

-----------------------------------------------------------------------------
(* Properties: reading a frame's trace *)

FrameIdx == 1..Len(stack)

EventsAt(f, e, h) == {k \in 1..Len(f.trace) : f.trace[k].e = e /\ f.trace[k].h = h}

\* the plugins whose hook h the frame has invoked / has seen return
Called(f, h) == {f.trace[k].p : k \in EventsAt(f, "call", h)}
Returned(f, h) == {f.trace[k].p : k \in EventsAt(f, "ret", h)}

PhasesOf(f) ==
    LET evs == SelectSeq(f.trace, LAMBDA ev : ev.e = "phase")
    IN [k \in 1..Len(evs) |-> evs[k].h]

LifecyclePhases ==
    <<"configureContext", "onRequestStart", "resolveModel", "transformParams",
      "executor", "transformResult", "onRequestEnd">>

PhaseRank(h) ==
    IF \E k \in 1..Len(LifecyclePhases) : LifecyclePhases[k] = h
    THEN CHOOSE k \in 1..Len(LifecyclePhases) : LifecyclePhases[k] = h
    ELSE Len(LifecyclePhases) + 1

\* every event of the trace belongs to the phase that was started last
InPhaseOrder(f) ==
    \A i, j \in 1..Len(f.trace) :
        i < j => PhaseRank(f.trace[i].h) <= PhaseRank(f.trace[j].h)

\* a sequential hook has returned before the next event of the frame
OneAtATime(f) ==
    \A k \in 1..Len(f.trace) :
        (f.trace[k].e = "call" /\ f.trace[k].h \in SequentialHooks /\ k < Len(f.trace))
            => f.trace[k + 1] = RetEv(f.trace[k].h, f.trace[k].p)

-----------------------------------------------------------------------------
(* C1 *)

\* C1: a frame that completes successfully with a string model id ran the
\* seven phases exactly once each and in the order configureContext,
\* onRequestStart, resolveModel, transformParams, executor, transformResult,
\* onRequestEnd; every hook invocation lies inside its own phase, every
\* sequential hook returned before the next one was invoked, and no frame
\* leaves a parallel phase for the next one while a hook of it is pending.
C1_PhaseOrder ==
    \A i \in FrameIdx :
        LET f == stack[i]
        IN /\ (f.pc = "done" /\ f.params.model.kind = "string")
                => /\ PhasesOf(f) = LifecyclePhases
                   /\ InPhaseOrder(f)
                   /\ OneAtATime(f)
                   /\ f.pend = {}
                   /\ f.orphans = {}
           /\ (f.pc \in SequentialHooks \/ f.pc = "done") => f.pend = {}

C1_Witness ==
    /\ stack # <<>>
    /\ Top.pc = "done"
    /\ Top.params.model.kind = "string"
    /\ N = 2
    /\ Called(Top, "configureContext") # {}
    /\ Called(Top, "onRequestStart") # {}
    /\ Called(Top, "transformResult") # {}
    /\ Called(Top, "onRequestEnd") # {}

-----------------------------------------------------------------------------
(* C2 *)

\* no onRequestEnd hook is invoked once the catch block has been entered
NoEndAfterError(f) ==
    \A i \in EventsAt(f, "phase", "onError"), j \in EventsAt(f, "call", "onRequestEnd") :
        j < i

-----------------------------------------------------------------------------
(* C3 *)

\* C3: while the frame entered by context.recursiveCall is the innermost one,
\* recursiveDepth is the caller's depth plus one and isRecursiveCall is true;
\* and the step in which the call settles, with the nested frame returned or
\* thrown, leaves recursiveDepth and isRecursiveCall at the values they had
\* immediately before the call.
C3_RecursiveCallFrame ==
    /\ []((stack # <<>> /\ Top.caller = "hook")
            => /\ Top.previousDepth < ctx.maxRecursiveDepth
               /\ Top.previousDepth = Top.pre.depth
               /\ ctx.recursiveDepth = Top.previousDepth + 1
               /\ ctx.isRecursiveCall)
    /\ [][(Settled /\ Top.caller = "hook")
            => /\ ctx'.recursiveDepth = Top.pre.depth
               /\ ctx'.isRecursiveCall = Top.pre.flag
               /\ Len(stack') = Len(stack) - 1]_vars

C3_Witness ==
    /\ Len(stack) = 1
    /\ nested > 0
    /\ Top.pc = "onError"
    /\ Top.failedAt = "transformParams"
    /\ Top.caught = ThrownError("ExecutorError")
    /\ ~Top.exec.called
    /\ ctx.recursiveDepth = 0
    /\ ~ctx.isRecursiveCall

-----------------------------------------------------------------------------
(* C4 *)

\* C4: 0 <= recursiveDepth <= maxRecursiveDepth = 10 in every state; a
\* RecursiveDepthError is thrown only when recursiveDepth >= maxRecursiveDepth,
\* it carries the current and the maximum depth, and the step that throws it
\* starts no frame, calls no executor and leaves recursiveDepth and
\* isRecursiveCall unchanged; at the limit no frame is started at all.
C4_DepthLimit ==
    /\ [](/\ ctx.maxRecursiveDepth = DefaultMaxRecursiveDepth
          /\ 0 <= ctx.recursiveDepth
          /\ ctx.recursiveDepth <= ctx.maxRecursiveDepth)
    /\ [][/\ depthErrors' # depthErrors
             => /\ DepthExceeded(ctx)
                /\ ctx' = ctx
                /\ nested' = nested
                /\ Len(stack') = Len(stack)
                /\ Top'.exec = Top.exec
                /\ Top'.caught = RecursiveDepthError(ctx.recursiveDepth,
                                                     ctx.maxRecursiveDepth)
          /\ (stack # <<>> /\ DepthExceeded(ctx))
             => /\ Len(stack') <= Len(stack)
                /\ nested' = nested]_vars

C4_Witness ==
    /\ depthErrors > 0
    /\ stack # <<>>
    /\ ctx.recursiveDepth = ctx.maxRecursiveDepth
    /\ Top.caught = RecursiveDepthError(DefaultMaxRecursiveDepth, DefaultMaxRecursiveDepth)
    /\ Len(stack) = DefaultMaxRecursiveDepth + 1

-----------------------------------------------------------------------------
(* C5 *)

\* C5: a request in which every frame issues a recursive call starts at most
\* maxRecursiveDepth nested frames: the call after that fails with
\* RecursiveDepthError and no further frame is started.
C5_BoundedNesting == nested <= ctx.maxRecursiveDepth

-----------------------------------------------------------------------------
(* C6 *)

Tier(p) == IF p.enforce = "pre" THEN 1 ELSE IF p.enforce = "post" THEN 3 ELSE 2

\* C6: after construction and after every use and remove, the manager's list
\* has every 'pre' plugin before every plugin without enforce and every plugin
\* without enforce before every 'post' plugin, and the plugins of one tier
\* stand in the order in which they were registered.
C6_SortedOrder ==
    /\ \A i, j \in 1..Len(plugins) : i < j => Tier(plugins[i]) <= Tier(plugins[j])
    /\ \A t \in 1..3 :
           SelectSeq(plugins, LAMBDA p : Tier(p) = t)
               = SelectSeq(registered, LAMBDA p : Tier(p) = t)

C6_Witness ==
    /\ Len(plugins) >= 3
    /\ plugins # registered
    /\ \E i, j \in 1..Len(plugins) :
           i < j /\ Tier(plugins[i]) = Tier(plugins[j]) /\ plugins[i] # plugins[j]
    /\ \E i \in 1..Len(plugins) : Tier(plugins[i]) = 1
    /\ \E i \in 1..Len(plugins) : Tier(plugins[i]) = 3

-----------------------------------------------------------------------------
(* C7 *)

NeitherNullNorUndefined(m) == m.kind # "null" /\ m.kind # "undefined"

\* the plugins whose resolveModel hook returns a model
Resolvers ==
    {i \in WithHook("resolveModel") : NeitherNullNorUndefined(Sorted[i].model)}

FirstResolver == CHOOSE i \in Resolvers : \A j \in Resolvers : i <= j

\* step 2 of the frame is over and no resolveModel hook threw
ResolutionOver(f) ==
    \/ \E k \in 1..Len(f.trace) : f.trace[k] = PhaseEv("transformParams")
    \/ /\ f.failedAt = "resolveModel"
       /\ Returned(f, "resolveModel") = Called(f, "resolveModel")

\* C7: for a string model id the resolveModel hooks are invoked one at a time
\* in sorted plugin order, a hook is invoked only after every earlier hook has
\* returned null or undefined, and the model the frame goes on with is the one
\* returned by the first hook that returns a model, no later hook having been
\* invoked (when no hook returns a model all of them were invoked and the
\* frame fails); for a model handle no resolveModel hook is invoked.
C7_FirstWins ==
    LET sorted == Sorted
        withHook == {j \in 1..Len(sorted) : "resolveModel" \in sorted[j].hooks}
        resolvers == {j \in withHook : NeitherNullNorUndefined(sorted[j].model)}
        first == CHOOSE j \in resolvers : \A k \in resolvers : j <= k
    IN \A i \in FrameIdx :
        LET f == stack[i]
            events == {k \in 1..Len(f.trace) : f.trace[k].h = "resolveModel"}
            calls == {k \in events : f.trace[k].e = "call"}
            rets == {k \in events : f.trace[k].e = "ret"}
            called == {f.trace[k].p : k \in calls}
        IN IF f.params.model.kind # "string"
           THEN events = {}
           ELSE /\ called \subseteq withHook
                /\ \A kc \in calls, j \in withHook :
                       j < f.trace[kc].p
                          => /\ ~NeitherNullNorUndefined(sorted[j].model)
                             /\ \E kr \in rets :
                                    kr < kc /\ f.trace[kr].p = j
                /\ \A k1, k2 \in calls :
                       k1 < k2 => f.trace[k1].p < f.trace[k2].p
                /\ ResolutionOver(f)
                       => IF resolvers = {}
                          THEN /\ called = withHook
                               /\ f.failedAt = "resolveModel"
                          ELSE /\ called = {j \in withHook : j <= first}
                               /\ f.failedAt # "resolveModel"
                               /\ f.baseModel = sorted[first].model

\* both plugins have the hook, the first one returns a model, the second one
\* is never asked
C7_Witness ==
    /\ stack # <<>>
    /\ Top.pc = "done"
    /\ Top.params.model.kind = "string"
    /\ WithHook("resolveModel") = {1, 2}
    /\ Called(Top, "resolveModel") = {1}
    /\ Top.baseModel = Sorted[1].model

-----------------------------------------------------------------------------
(* C8 *)

-----------------------------------------------------------------------------
(* C9 *)

\* C9: in executeWithPlugins and in executeStreamWithPlugins the model handed
\* to the executor is the resolved model wrapped with the entries of
\* context.middlewares, in their order, when context.middlewares is non-empty
\* after configureContext, and the resolved model itself when it is empty,
\* for a string model id and for a model handle alike.
C9_MiddlewareWrapping ==
    \A i \in FrameIdx :
        LET f == stack[i]
        IN (f.exec.called /\ f.kind \in {"generateText", "streamText"})
              => f.exec.model =
                     IF f.mwAfterConfigure # <<>>
                     THEN WrapLanguageModel(f.baseModel, f.mwAfterConfigure)
                     ELSE f.baseModel

-----------------------------------------------------------------------------
(* C10 *)

\* { ...a, ...b }: the keys of b replace those of a, whatever their values
ShallowMerge(a, b) ==
    [k \in (DOMAIN a) \cup (DOMAIN b) |-> IF k \in DOMAIN b THEN b[k] ELSE a[k]]

\* a merge that descends into keys both sides hold as objects
DeepMerge(a, b) ==
    [k \in (DOMAIN a) \cup (DOMAIN b) |->
        IF k \in DOMAIN a /\ k \in DOMAIN b
        THEN IF a[k].t = "obj" /\ b[k].t = "obj"
             THEN Obj(ShallowMerge(a[k].o, b[k].o)) ELSE b[k]
        ELSE IF k \in DOMAIN b THEN b[k] ELSE a[k]]

RECURSIVE ShallowMergeAll(_, _)
ShallowMergeAll(original, patches) ==
    IF patches = <<>> THEN original
    ELSE ShallowMergeAll(ShallowMerge(original, Head(patches)), Tail(patches))

RECURSIVE DeepMergeAll(_, _)
DeepMergeAll(original, patches) ==
    IF patches = <<>> THEN original
    ELSE DeepMergeAll(DeepMerge(original, Head(patches)), Tail(patches))

\* the patches of the plugins with a transformParams hook, in sorted order
PatchesInOrder ==
    LET idxs == SelectSeq(IndexSeq, LAMBDA i : HasHook(i, "transformParams"))
    IN [k \in 1..Len(idxs) |-> Sorted[idxs[k]].patch]

\* C10 as stated: the parameters handed to the executor are the deep merge,
\* in sorted plugin order, of the plugins' patches over the original
\* parameters.
C10_Original ==
    \A i \in FrameIdx :
        LET f == stack[i]
        IN f.exec.called
              => f.exec.params = DeepMergeAll(f.params.data, PatchesInOrder)

\* C10 (amended): the parameters handed to the executor are the shallow merge
\* ({...result, ...partial}: a patched top-level key replaces the old value
\* whole), in sorted plugin order, of the plugins' patches over the original
\* parameters; a hook that returns an empty patch leaves the running value
\* unchanged.
C10_ShallowMerge ==
    /\ [](\A i \in FrameIdx :
            LET f == stack[i]
            IN f.exec.called
                  => /\ f.patches = PatchesInOrder
                     /\ f.exec.params = ShallowMergeAll(f.params.data, PatchesInOrder))
    /\ [][(/\ Running
           /\ Top.pc = "transformParams"
           /\ Len(stack') = Len(stack)
           /\ Len(Top'.patches) = Len(Top.patches) + 1
           /\ Top'.patches[Len(Top'.patches)] = EmptyFn)
            => Top'.tparams = Top.tparams]_vars

\* two patches, one of them replacing the object under the key tools
C10_Witness ==
    /\ stack # <<>>
    /\ Top.exec.called
    /\ Len(Top.patches) = 2
    /\ \A k \in 1..2 : Top.patches[k] # EmptyFn
    /\ Top.exec.params["tools"] = Obj("b" :> 1)
    /\ Top.params.data["tools"] # Obj("b" :> 1)

-----------------------------------------------------------------------------
(* C11 *)

\* the executor's value after the transformResult hooks of the plugins in S,
\* taken in sorted order, have each marked it
FoldOver(f, S) ==
    LET idxs == SelectSeq(IndexSeq, LAMBDA i : i \in S)
    IN IF f.exec.returned.def
       THEN [def |-> TRUE, v |-> [k \in 1..Len(idxs) |-> Sorted[idxs[k]].name]]
       ELSE f.exec.returned

\* C11: while the transformResult hooks run, the running result is the
\* executor's value threaded through the hooks that have returned so far, which
\* are the first ones in sorted order; the value passed to the onRequestEnd
\* hooks and the value the frame returns are the fold over all the plugins
\* that have the hook, and the top-level caller receives that value.
C11_ResultFold ==
    /\ [](\A i \in FrameIdx :
            LET f == stack[i]
                done == Returned(f, "transformResult")
            IN EventsAt(f, "phase", "transformResult") # {}
                  => /\ f.result = FoldOver(f, done)
                     /\ \A a \in done, b \in WithHook("transformResult") :
                            b < a => b \in done
                     /\ EventsAt(f, "phase", "onRequestEnd") # {}
                            => /\ done = WithHook("transformResult")
                               /\ f.endArg = FoldOver(f, WithHook("transformResult")))
    /\ [][(Settled /\ Top.caller = "top" /\ Top.pc = "done")
            => /\ outcome'.st = "ok"
               /\ outcome'.result = FoldOver(Top, WithHook("transformResult"))]_vars

\* two plugins have the hook and the onRequestEnd hooks got the folded value
C11_Witness ==
    /\ stack # <<>>
    /\ Top.pc = "done"
    /\ WithHook("transformResult") = {1, 2}
    /\ Top.result = Result(<<Sorted[1].name, Sorted[2].name>>)
    /\ Top.endArg = Top.result
    /\ Called(Top, "onRequestEnd") # {}
    /\ basePlugins # Sorted

-----------------------------------------------------------------------------
(* C12 *)

ParallelHooks == {"onRequestStart", "onRequestEnd", "onError"}

\* C12: executeParallel invokes the hook of every plugin that implements it,
\* completes (resolved or rejected) only when no invoked hook is still
\* running, and rejects when a hook throws or rejects, whichever plugin it
\* belongs to.
C12_WaitsForAll ==
    \A i \in FrameIdx :
        LET f == stack[i]
        IN /\ \A h \in ParallelHooks :
                  EventsAt(f, "phase", h) # {} => Called(f, h) = WithHook(h)
           /\ f.orphans = {}
           /\ f.failedAt \in {"onRequestStart", "onRequestEnd"}
                  => f.caught = ThrownError("HookError")

-----------------------------------------------------------------------------
(* C13 *)

\* C13: a frame whose onError hook throws or rejects leaves the catch block
\* with the error of that hook, which is not the error it caught; such a
\* frame never returns, and its caller - the top-level caller or the hook
\* that awaits the recursive call - receives the hook's error.
C13_OnErrorHookFails ==
    /\ [](\A i \in FrameIdx :
            LET f == stack[i]
            IN f.err = OnErrorHookError(i)
                  => /\ f.pc = "thrown"
                     /\ f.failedAt # "none"
                     /\ f.err # f.caught
                     /\ Called(f, "onError") # {})
    /\ [][/\ (Running /\ Top.pc = "onError" /\ Top.pend # {}
                 /\ Len(stack') = Len(stack) /\ Top'.pc # "onError")
              => /\ Top'.pc = "thrown"
                 /\ Top'.err = OnErrorHookError(Len(stack))
                 /\ Top'.err # Top.caught
          /\ (Settled /\ Top.err = OnErrorHookError(Len(stack)))
              => IF Top.caller = "top"
                 THEN outcome'.st = "err" /\ outcome'.err = Top.err
                 ELSE /\ Len(stack') = Len(stack) - 1
                      /\ Top'.caught = Top.err]_vars

\* the executor failed, an onError hook failed too, the caller got the
\* hook's error
C13_Witness ==
    /\ stack = <<>>
    /\ outcome.st = "err"
    /\ outcome.err = OnErrorHookError(1)

-----------------------------------------------------------------------------
(* C14 *)

\* the invocations, on the trace of f, of sequential hooks that threw: they
\* did not return and the frame is not inside them
FailedCalls(f) ==
    {k \in 1..Len(f.trace) :
        /\ f.trace[k].e = "call"
        /\ f.trace[k].h \in SequentialHooks
        /\ ~\E m \in (k + 1)..Len(f.trace) : f.trace[m] = RetEv(f.trace[k].h, f.trace[k].p)
        /\ ~(f.pc = f.trace[k].h /\ f.idx = f.trace[k].p /\ f.sub # "none")}

\* after the invocation at k the frame ran nothing but its catch block
StoppedAt(f, k) ==
    LET h == f.trace[k].h
        p == f.trace[k].p
    IN /\ k < Len(f.trace)
       /\ f.trace[k + 1] = PhaseEv("onError")
       /\ \A m \in (k + 1)..Len(f.trace) : f.trace[m].h = "onError"
       /\ \A m \in 1..Len(f.trace) : f.trace[m] = CallEv(h, p) => m = k
       /\ \A q \in Called(f, h) : q <= p
       /\ PhaseRank(h) < PhaseRank("executor") => ~f.exec.called
       /\ f.pc \in {"onError", "thrown"}
       /\ f.failedAt = h

\* C14 as stated: when a sequential hook throws, no hook of a later plugin
\* and no later phase runs in the frame, the hook is not invoked again, and
\* the frame fails with the error the hook threw.
C14_Original ==
    \A i \in FrameIdx :
        LET f == stack[i]
        IN \A k \in FailedCalls(f) :
               /\ StoppedAt(f, k)
               /\ f.pc = "thrown" => f.err = f.caught

\* C14: when a configureContext, resolveModel, transformParams or
\* transformResult hook throws, no hook of a later plugin of that phase and
\* no later lifecycle phase runs in the frame (the executor is not called
\* when the hook precedes it), the hook is not invoked a second time, the
\* catch block receives what the hook threw, and the caller receives that
\* error unless an onError hook of the frame fails, in which case it
\* receives the error of the onError hook.
C14_Propagates ==
    /\ [](\A i \in FrameIdx :
            LET f == stack[i]
            IN \A k \in FailedCalls(f) :
                   /\ StoppedAt(f, k)
                   /\ f.pc = "thrown"
                        => /\ f.err \in {f.caught, OnErrorHookError(i)}
                           /\ f.err # f.caught => Called(f, "onError") # {})
    /\ [][/\ (AtSequentialHook /\ Len(stack') = Len(stack)
                 /\ FailedCalls(Top') # FailedCalls(Top))
              => Top'.caught.type \in {"HookError", "RecursiveDepthError"}
          /\ (Settled /\ Top.caller = "hook")
              => (FailedCalls(Top') # {}) = (Top.pc = "thrown")
          /\ (Settled /\ Top.caller = "hook" /\ Top.pc = "thrown")
              => Top'.caught = Top.err
          /\ (Settled /\ Top.caller = "top" /\ FailedCalls(Top) # {})
              => outcome'.st = "err" /\ outcome'.err = Top.err]_vars

\* the transformParams hook of the first of two plugins threw: the second
\* plugin's hook and the executor never ran and the frame rethrew the error
C14_Witness ==
    /\ stack # <<>>
    /\ Top.pc = "thrown"
    /\ Top.failedAt = "transformParams"
    /\ WithHook("transformParams") = {1, 2}
    /\ Called(Top, "transformParams") = {1}
    /\ FailedCalls(Top) # {}
    /\ Top.err = ThrownError("HookError")
    /\ Called(Top, "onError") # {}

-----------------------------------------------------------------------------
(* C15 *)

\* the position in the sorted list of the plugin called name, 0 if none
SortedIndex(name) ==
    IF \E i \in 1..N : Sorted[i].name = name
    THEN CHOOSE i \in 1..N : Sorted[i].name = name
    ELSE 0

\* C15: the transform list the streaming executor is called with holds one
\* entry for each plugin that defines transformStream and no other entry,
\* in sorted plugin order, each built from the fully transformed params the
\* executor gets; the other executors get no transform list; and no step
\* of a frame touches a stream: the frame hands back what the executor and
\* the transformResult hooks returned.
C15_StreamTransforms ==
    /\ [](\A i \in FrameIdx :
            LET f == stack[i]
                ts == f.exec.transforms
            IN f.exec.called
                 => IF f.kind = "streamText"
                    THEN /\ {ts[k].plugin : k \in 1..Len(ts)}
                               = {Sorted[j].name : j \in WithHook("transformStream")}
                         /\ \A k, l \in 1..Len(ts) :
                                k < l => SortedIndex(ts[k].plugin) < SortedIndex(ts[l].plugin)
                         /\ \A k \in 1..Len(ts) : ts[k].params = f.exec.params
                         /\ Returned(f, "transformParams") = WithHook("transformParams")
                         /\ f.exec.params = f.tparams
                    ELSE ts = <<>>)
    /\ [][(stack # <<>> /\ stack' # <<>>) => streams' = streams]_vars

\* a stream request on an engine whose two plugins both define
\* transformStream and were registered in the reverse of the sorted order
C15_Witness ==
    /\ stack # <<>>
    /\ Top.kind = "streamText"
    /\ Top.exec.called
    /\ Len(Top.exec.transforms) = 2
    /\ basePlugins # Sorted
    /\ Called(Top, "transformParams") # {}

-----------------------------------------------------------------------------
(* C17 *)

DetailKeys == {"inputTokenDetails", "outputTokenDetails"}

\* the kind of a usage record, told by its fields: an embedding record has
\* tokens only, an image record has both token counts and no detail field,
\* any other record with one of the three counts is a language-model record
ShapeOf(u) ==
    IF DOMAIN u = {"tokens"} THEN "embedding"
    ELSE IF {"inputTokens", "outputTokens"} \subseteq DOMAIN u /\ DOMAIN u \cap DetailKeys = {}
    THEN "image"
    ELSE IF DOMAIN u \cap MainTokens # {} THEN "language"
    ELSE "unknown"

\* the count under key (under detail.key when detail is given), 0 if missing
CountOf(u, detail, key) ==
    IF detail = "" THEN (IF key \in DOMAIN u THEN u[key] ELSE 0)
    ELSE IF detail \in DOMAIN u /\ key \in DOMAIN u[detail] THEN u[detail][key]
    ELSE 0

\* the counts a usage record can hold
CountPaths ==
    {<<"", k>> : k \in MainTokens \cup {"tokens"}}
        \cup {<<"inputTokenDetails", k>> : k \in InputDetailTokens}
        \cup {<<"outputTokenDetails", k>> : k \in OutputDetailTokens}

RECURSIVE SumOf(_, _, _)
SumOf(records, detail, key) ==
    IF records = <<>> THEN 0
    ELSE CountOf(Head(records), detail, key) + SumOf(Tail(records), detail, key)

\* equal count for count, a missing count being 0
SameCounts(u, v) ==
    \A path \in CountPaths : CountOf(u, path[1], path[2]) = CountOf(v, path[1], path[2])

RECURSIVE AccumulateAll(_, _)
AccumulateAll(target, sources) ==
    IF sources = <<>> THEN target
    ELSE AccumulateAll(AccumulateUsage(target, Head(sources)).target, Tail(sources))

Reversed(seq) == [k \in 1..Len(seq) |-> seq[Len(seq) + 1 - k]]

AllSameShape ==
    \A k \in 1..Len(usage.applied) : ShapeOf(usage.applied[k]) = ShapeOf(usage.initial)

\* C17: when records of one shape are accumulated into a target of that
\* shape, every count of the target ends as the sum of that count over the
\* target and the records, a missing count being 0, no diagnostic is
\* emitted, and the counts are the same when the records are accumulated in
\* the reverse order, when the target and the first record change places,
\* and when the later records are first accumulated into the first of them.
C17_UsageSum ==
    AllSameShape
        => /\ \A path \in CountPaths :
                  CountOf(usage.target, path[1], path[2])
                      = SumOf(<<usage.initial>> \o usage.applied, path[1], path[2])
           /\ usage.warnings = 0
           /\ SameCounts(usage.target, AccumulateAll(usage.initial, Reversed(usage.applied)))
           /\ usage.applied # <<>>
                => /\ SameCounts(usage.target,
                                 AccumulateAll(Head(usage.applied),
                                               <<usage.initial>> \o Tail(usage.applied)))
                   /\ SameCounts(usage.target,
                                 AccumulateUsage(usage.initial,
                                                 AccumulateAll(Head(usage.applied),
                                                               Tail(usage.applied))).target)

\* {10, 20, 30} then {5, 10, 15} gave {15, 30, 45}
C17_Witness ==
    /\ usage.initial = MainUsage(MainTokens, 10)
    /\ usage.applied = <<MainUsage(MainTokens, 5)>>
    /\ usage.target = [inputTokens |-> 15, outputTokens |-> 30, totalTokens |-> 45]

-----------------------------------------------------------------------------
(* C18 *)

\* C18: accumulating a record into a target of another shape - the shapes
\* being language-model, image-model (no detail fields) and embedding-model
\* (tokens only) - leaves the target as it was and emits a diagnostic.
C18_MismatchIsNoOp ==
    [][\A source \in UsageRecords :
          (Accumulate(source)
              /\ ShapeOf(usage.target) # ShapeOf(source)
              /\ "unknown" \notin {ShapeOf(usage.target), ShapeOf(source)})
            => /\ usage'.target = usage.target
               /\ usage'.warnings = usage.warnings + 1]_vars

-----------------------------------------------------------------------------
(* C16 *)

\* the stream is transformed in prompt mode: context.mcpTools is set
PromptMode == ctx.mcpTools.t = "obj"

\* the usage of the finish-step of every step so far, of any stream
UsagesFed == [s \in 1..Len(fed) |-> fed[s].usage.u]

\* C16: in prompt mode the one finish part the consumer receives is the last
\* part of the top-level stream, and each count of its totalUsage is the sum
\* of that count over the finish-steps of all the steps of the top-level
\* stream and of the streams nested in it, whatever the provider's total.
C16_TotalUsage ==
    \A k \in 1..Len(out) :
        (PromptMode /\ out[k].type = "finish")
            => /\ k = Len(out)
               /\ out[k].level = 1
               /\ \A s \in 1..Len(fed) : fed[s].finished
               /\ out[k].usage.def
               /\ \A path \in CountPaths :
                      CountOf(out[k].usage.u, path[1], path[2])
                          = SumOf(UsagesFed, path[1], path[2])

\* three steps, each in a stream nested in that of the step before, each
\* with a usage: the finish part carries the sum
C16_Witness ==
    /\ PromptMode
    /\ out # <<>>
    /\ out[Len(out)].type = "finish"
    /\ Len(fed) = 3
    /\ \A s \in 1..3 : fed[s].level = s /\ fed[s].usage.def
    /\ out[Len(out)].usage.u["totalTokens"] >= 45
    /\ "inputTokenDetails" \in DOMAIN out[Len(out)].usage.u

-----------------------------------------------------------------------------
(* C19 *)

TextParts == {"text-start", "text-delta", "text-end"}

\* the parts of the given types the consumer has received from step s
PartsOf(s, types) == {k \in 1..Len(out) : out[k].step = s /\ out[k].type \in types}

\* the text is one tool_use block after another and nothing else
RECURSIVE OnlyToolUseBlocks(_)
OnlyToolUseBlocks(text) ==
    \/ text = <<>>
    \/ /\ MatchAt(text, 1, OpeningTag)
       /\ \E k \in (Len(OpeningTag) + 1)..Len(text) :
             /\ MatchAt(text, k, ClosingTag)
             /\ \A j \in (Len(OpeningTag) + 1)..(k - 1) : ~MatchAt(text, j, ClosingTag)
             /\ OnlyToolUseBlocks(SubSeq(text, k + Len(ClosingTag), Len(text)))

\* C19: in prompt mode the consumer receives no text-start, text-delta or
\* text-end of a step whose text consists of tool_use blocks only.
C19_NoTextForToolStep ==
    \A s \in 1..Len(fed) :
        (PromptMode /\ fed[s].text # <<>> /\ OnlyToolUseBlocks(fed[s].text))
            => PartsOf(s, TextParts) = {}

-----------------------------------------------------------------------------
(* C20 *)

\* C20: in prompt mode, for every step, the consumer receives the step's
\* text-start at most once, receives it before any text-delta of the step,
\* and, once the provider has sent the step's text-end, has received the
\* text-end if and only if it has received the text-start.
C20_TextStartOnce ==
    \A s \in 1..Len(fed) :
        PromptMode
            => /\ Cardinality(PartsOf(s, {"text-start"})) <= 1
               /\ \A d \in PartsOf(s, {"text-delta"}) :
                      \E k \in PartsOf(s, {"text-start"}) : k < d
               /\ fed[s].textEnded
                    => (PartsOf(s, {"text-end"}) # {}) = (PartsOf(s, {"text-start"}) # {})

\* the blocks of a text that name an available tool, in order of appearance
KnownBlocks(pieces, tools) ==
    IF tools.t # "obj" THEN <<>>
    ELSE SelectSeq(pieces, LAMBDA piece :
             IsBody(piece) /\ CanonicalName(BlockBodies[piece].name) \in DOMAIN tools.o)

-----------------------------------------------------------------------------
(* C21 *)

\* the text holds a tool_use block that names an available tool
HoldsKnownBlock(text, tools) ==
    /\ tools.t = "obj"
    /\ \E i, j, k \in 1..Len(text) :
          /\ MatchAt(text, i, OpeningTag)
          /\ i < j /\ j < k
          /\ IsBody(text[j])
          /\ CanonicalName(BlockBodies[text[j]].name) \in DOMAIN tools.o
          /\ \A m \in (i + Len(OpeningTag))..(j - 1) : ~IsBody(text[m])
          /\ MatchAt(text, k, ClosingTag)

\* the transform of the innermost stream is at a finish-step that takes the
\* tool path
AtToolFinishStep ==
    /\ pipes # <<>>
    /\ Pipe.phase = "closed"
    /\ ~Pipe.identity
    /\ HasMcpTools(ctx)
    /\ ~ctx.hasExecutedToolsInCurrentStep
    /\ HoldsKnownBlock(Pipe.textBuffer, ctx.mcpTools)

FinishStepsOf(s) == PartsOf(s, {"finish-step"})

\* C21: at a finish-step with prompt-mode tools, no tool executed yet in the
\* step and a block of a known tool in the step text, the step is marked as
\* having executed tools and nothing is sent while the tools run; when they
\* have run, their parts and then one finish-step part with finishReason
\* 'tool-calls' and the usage of the provider's part are sent, and with that
\* the recursive call is issued; that finish-step part is the only one of its
\* step, ends the parts of its step (the stream's finish part and what is
\* sent behind it belong to no step) and precedes every part of a later step.
C21_ToolPath ==
    /\ [][AtToolFinishStep /\ pipes' # pipes
            => /\ ctx'.hasExecutedToolsInCurrentStep
               /\ pipes'[Level].phase = "executing"
               /\ Len(pipes') = Len(pipes)
               /\ out' = out
               /\ ~fed'[Pipe.step].recursive.issued]_vars
    /\ [][(pipes # <<>> /\ Pipe.phase = "executing" /\ pipes' # pipes)
            => LET s == Pipe.step
                   n == Len(out')
               IN /\ ctx.hasExecutedToolsInCurrentStep
                  /\ fed[s].results # <<>>
                  /\ n > Len(out)
                  /\ SubSeq(out', 1, Len(out)) = out
                  /\ out'[n].type = "finish-step"
                  /\ out'[n].finishReason = "tool-calls"
                  /\ out'[n].usage = fed[s].usage
                  /\ out'[n].step = s
                  /\ \A k \in (Len(out) + 1)..(n - 1) :
                        out'[k].type \in {"tool-call", "tool-result", "tool-error"}
                  /\ \A i \in 1..Len(fed[s].results) :
                        \E k \in (Len(out) + 1)..(n - 1) :
                            /\ out'[k].type = "tool-call"
                            /\ out'[k].tool.id = fed[s].results[i].id
                  /\ fed'[s].recursive.issued
                  /\ Len(pipes') = Len(pipes) + 1
                  /\ pipes'[Len(pipes)].phase = "piping"
                  /\ pipes'[Len(pipes')].phase = "start"]_vars
    /\ [](\A s \in 1..Len(fed) :
            fed[s].recursive.issued
               => /\ Cardinality(FinishStepsOf(s)) = 1
                  /\ \A k \in FinishStepsOf(s) :
                        /\ out[k].finishReason = "tool-calls"
                        /\ \A j \in 1..Len(out) :
                              /\ (out[j].step = s /\ out[j].type \notin {"finish", "raw"})
                                    => j <= k
                              /\ out[j].step > s => j > k)

\* a tool step at the top level whose nested stream has sent parts
C21_Witness ==
    /\ Len(fed) >= 2
    /\ fed[1].recursive.issued
    /\ fed[2].level = 2
    /\ \E k \in 1..Len(out) : out[k].step = 2 /\ out[k].type = "text-delta"
    /\ \E k \in 1..Len(out) : out[k].step = 1 /\ out[k].type = "tool-result"

-----------------------------------------------------------------------------
(* C22 *)

\* the steps of the start-step parts sent, in the order sent
RECURSIVE StepsStarted(_)
StepsStarted(chunks) ==
    IF chunks = <<>> THEN <<>>
    ELSE IF Head(chunks).type = "start-step"
         THEN <<Head(chunks).step>> \o StepsStarted(Tail(chunks))
         ELSE StepsStarted(Tail(chunks))

\* C22: of a recursive stream neither the start part nor the finish part nor
\* a part behind the finish part is sent to the consumer, and its other parts
\* are sent in the order produced (what was sent stays as it is, the steps of
\* all streams start in their order); so the consumer sees at most one start
\* part, no finish part before the top-level stream has finished and exactly
\* one when it has, behind every part of every recursive stream.
C22_PipeRecursiveStream ==
    /\ [](\A k \in 1..Len(out) :
            out[k].level > 1 => out[k].type \notin {"start", "finish", "raw"})
    /\ [](StepsStarted(out) = [s \in 1..Len(fed) |-> s])
    /\ [][Len(out') >= Len(out) /\ SubSeq(out', 1, Len(out)) = out]_vars
    /\ [](Cardinality(PartsOf(0, {"start"})) <= 1)
    /\ [](LET finishes == {k \in 1..Len(out) : out[k].type = "finish"}
          IN IF pipes # <<>> /\ pipes[1].phase = "ended"
             THEN /\ Cardinality(finishes) = 1
                  /\ \A k \in finishes : \A j \in 1..Len(out) :
                        out[j].level > 1 => j < k
             ELSE finishes = {})

\* the top-level stream has finished after a recursive stream whose provider
\* sent a part behind its finish part
C22_Witness ==
    /\ pipes # <<>>
    /\ pipes[1].phase = "ended"
    /\ \E s \in 1..Len(fed) : fed[s].level = 2 /\ fed[s].trailing
    /\ \E k \in 1..Len(out) : out[k].level = 2 /\ out[k].type = "finish-step"

-----------------------------------------------------------------------------
(* C23 *)

\* C23: when a tool of a step has failed, every tool_use block of the step
\* that names an available tool has been executed all the same (each has a
\* result, none is left pending), the failure is a result with status 'error'
\* in the user turn fed back to the model, the recursive call has been issued
\* and no error part was sent to the consumer; a result that is executed or
\* error stays as it is.
C23_ToolFailuresContained ==
    /\ [](\A s \in 1..Len(fed) :
            PartsOf(s, {"tool-error"}) # {}
               => LET results == fed[s].results
                      messages == fed[s].recursive.messages
                  IN /\ Len(results) = Len(KnownBlocks(fed[s].text, ctx.mcpTools))
                     /\ \A i \in 1..Len(results) :
                           results[i].status \in {"executed", "error"}
                     /\ fed[s].recursive.issued
                     /\ messages # <<>>
                     /\ messages[Len(messages)].role = "user"
                     /\ Len(messages[Len(messages)].content) = Len(results)
                     /\ \A i \in 1..Len(results) :
                           /\ messages[Len(messages)].content[i].toolName = results[i].toolName
                           /\ messages[Len(messages)].content[i].status = results[i].status
                     /\ \A k \in 1..Len(out) : out[k].type # "error")
    /\ [][\A s \in 1..Len(fed) : \A i \in 1..Len(fed[s].results) :
            fed[s].results[i].status # "pending"
               => /\ Len(fed'[s].results) = Len(fed[s].results)
                  /\ fed'[s].results[i] = fed[s].results[i]]_vars

-----------------------------------------------------------------------------
(* C24 *)

\* <tool_use><name>search</name><arguments>{"query":"x"}</arguments></tool_use>
SearchStepText == <<"<tool", "_use>", "search", "</tool", "_use>">>

\* C24: a step whose text is exactly the tool_use block of the tool search with
\* arguments {"query":"x"}, a tool named search being available, sends no
\* visible text, and when its finish-step part has been sent, no tool having
\* failed, there is exactly one tool-use result, with toolName "search" and the parsed arguments, whose
\* status is executed, and a recursive call was issued whose messages end with
\* the user turn holding that result.
C24_SearchEndToEnd ==
    \A s \in 1..Len(fed) :
        (/\ fed[s].text = SearchStepText
         /\ ctx.mcpTools.t = "obj"
         /\ "search" \in DOMAIN ctx.mcpTools.o)
           => /\ PartsOf(s, {"text-delta"}) = {}
              /\ (PartsOf(s, {"finish-step"}) # {} /\ PartsOf(s, {"tool-error"}) = {})
                    => LET results == fed[s].results
                           messages == fed[s].recursive.messages
                       IN /\ Len(results) = 1
                          /\ results[1].toolName = "search"
                          /\ results[1].arguments =
                                [parsed |-> TRUE, text |-> "{\"query\":\"x\"}"]
                          /\ results[1].status = "executed"
                          /\ fed[s].recursive.issued
                          /\ messages # <<>>
                          /\ messages[Len(messages)] =
                                [role |-> "user",
                                 content |-> <<[toolName |-> "search",
                                                status |-> "executed"]>>]

-----------------------------------------------------------------------------
(* C25 *)

\* 'Hello <tool_use>...</tool_use> World'
HelloWorldText == <<"h", "<tool", "_use>", "call", "</tool", "_use>", "w">>

\* the texts of the text-delta parts of step s among the chunks, concatenated
RECURSIVE VisibleText(_, _)
VisibleText(chunks, s) ==
    IF chunks = <<>> THEN <<>>
    ELSE (IF Head(chunks).type = "text-delta" /\ Head(chunks).step = s
          THEN Head(chunks).text ELSE <<>>)
         \o VisibleText(Tail(chunks), s)

\* C25: in prompt mode, for a step whose text is 'Hello ', a tool_use block
\* and ' World', however it is cut into deltas: what the text-delta parts sent
\* to the consumer hold is at any time the beginning of 'Hello ' ' World' (no
\* part of the tag or of its content); once the provider has sent the step's
\* text-end, it is all of it, the consumer has received exactly one text-start
\* and exactly one text-end of the step, and every text-delta lies between them.
C25_HelloWorld ==
    \A s \in 1..Len(fed) :
        (PromptMode /\ fed[s].text = HelloWorldText)
            => LET visible == VisibleText(out, s)
               IN /\ Len(visible) <= 2
                  /\ visible = SubSeq(<<"h", "w">>, 1, Len(visible))
                  /\ fed[s].textEnded
                        => /\ visible = <<"h", "w">>
                           /\ Cardinality(PartsOf(s, {"text-start"})) = 1
                           /\ Cardinality(PartsOf(s, {"text-end"})) = 1
                           /\ \A d \in PartsOf(s, {"text-delta"}) :
                                 /\ \A k \in PartsOf(s, {"text-start"}) : k < d
                                 /\ \A k \in PartsOf(s, {"text-end"}) : d < k

-----------------------------------------------------------------------------
(* C26 *)

\* what of a text lies outside (inside) its tags, read off the whole text
RECURSIVE Classified(_, _, _)
Classified(text, inside, wanted) ==
    IF text = <<>> THEN <<>>
    ELSE LET tag == IF inside THEN ClosingTag ELSE OpeningTag
         IN IF MatchAt(text, 1, tag)
            THEN Classified(SubSeq(text, Len(tag) + 1, Len(text)), ~inside, wanted)
            ELSE (IF inside = wanted THEN <<Head(text)>> ELSE <<>>)
                 \o Classified(Tail(text), inside, wanted)

\* C26: however a text is cut into fragments, a cut inside a tag and a tag
\* held back over several fragments included, the outside-tag content the
\* extractor has emitted after the teardown flush is what it emits when the
\* whole text is one fragment, and is the text without its tags and without
\* what they enclose; before the teardown it is a beginning of that, and the
\* tag content emitted is what the tags enclose.
C26_ChunkingInvariant ==
    extractor # <<>>
        => LET whole == ProcessText(NewTagExtractor, extractor.text)
               atOnce == whole.results \o Finalize([buffer |-> whole.buffer,
                                                    inside |-> whole.inside])
               outside == Classified(extractor.text, FALSE, FALSE)
           IN /\ Len(extractor.outside) <= Len(outside)
              /\ extractor.outside = SubSeq(outside, 1, Len(extractor.outside))
              /\ extractor.done
                    => /\ extractor.outside = ContentOf(atOnce, FALSE)
                       /\ extractor.outside = outside
                       /\ extractor.inside = Classified(extractor.text, FALSE, TRUE)

\* a text with content before, inside and after a tool_use block, fed in four
\* fragments or more, the opening tag and the closing tag both cut and held
\* back over an empty fragment
C26_Witness ==
    /\ extractor # <<>>
    /\ extractor.done
    /\ extractor.text = <<"<tool", "_use>", "h", "</tool", "_use>">>
    /\ extractor.fragments >= 4
    /\ extractor.heldOver
    /\ extractor.inside = <<"h">>

-----------------------------------------------------------------------------
(* C27 *)

\* C27: whatever the interleaving of the recursive calls the parallel hooks
\* of one frame issue on the shared context, when none of the calls is
\* running any more recursiveDepth and isRecursiveCall are what they were
\* before the first call, and no two nested frames are ever active at the
\* same recursiveDepth.
C27_DepthRestored ==
    hookCalls # <<>>
        => LET hooks == hookCalls.hooks
               running == {i \in 1..Len(hooks) : hooks[i].st = "running"}
           IN /\ running = {}
                    => /\ ctx.recursiveDepth = hookCalls.depth
                       /\ ctx.isRecursiveCall = hookCalls.isRecursive
              /\ \A i, j \in running : i # j => hooks[i].depth # hooks[j].depth

-----------------------------------------------------------------------------
(* C28 *)

\* C28: after any sequence of use, usePlugins and removePlugin on the engine
\* and of streamText, generateText and generateImage on its executor, no two
\* plugins of the engine's list have the same name, and a removePlugin that
\* removes anything removes exactly one plugin.
C28_UniqueNames ==
    /\ [](\A i, j \in 1..Len(basePlugins) :
            i # j => basePlugins[i].name # basePlugins[j].name)
    /\ [][Len(basePlugins') < Len(basePlugins)
            => Len(basePlugins') = Len(basePlugins) - 1]_vars

-----------------------------------------------------------------------------
(* C29 *)

\* the transform of the innermost stream is at the finish-step of a step whose
\* text holds no block of an available tool, or there are no prompt-mode tools
AtPlainFinishStep ==
    /\ pipes # <<>>
    /\ Pipe.phase = "closed"
    /\ \/ ~HasMcpTools(ctx)
       \/ ~HoldsKnownBlock(fed[Pipe.step].text, ctx.mcpTools)

\* C29: at the finish-step of a step whose text holds no tool block of a known
\* tool, or without prompt-mode tools, no tool is executed and no recursive
\* call is issued, the finish-step part is sent as the provider sent it (its
\* finishReason, its usage), every count of the accumulated usage has grown by
\* that count of the step's usage, and the text buffer is left empty for the
\* next step.
C29_PlainFinishStep ==
    [][(AtPlainFinishStep /\ pipes' # pipes)
          => LET s == Pipe.step
                 u == fed'[s].usage
             IN /\ Len(pipes') = Len(pipes)
                /\ pipes'[Level].phase = "between"
                /\ pipes'[Level].textBuffer = <<>>
                /\ ctx'.hasExecutedToolsInCurrentStep = ctx.hasExecutedToolsInCurrentStep
                /\ fed'[s].results = <<>>
                /\ ~fed'[s].recursive.issued
                /\ out' = Append(out, [Chunk("finish-step", Len(pipes), s, <<>>, u, "stop")
                                          EXCEPT !.usage = u])
                /\ u.def
                      => /\ ctx'.accumulatedUsage.def
                         /\ \A path \in CountPaths :
                               CountOf(ctx'.accumulatedUsage.u, path[1], path[2])
                                  = CountOf(IF ctx.accumulatedUsage.def
                                            THEN ctx.accumulatedUsage.u ELSE <<>>,
                                            path[1], path[2])
                                    + CountOf(u.u, path[1], path[2])]_vars

-----------------------------------------------------------------------------
(* C30 *)

\* C30: defaultParseToolUse returns one pending result for each tool_use
\* block of the text whose alias-rewritten name is an available tool, in order
\* of appearance and with pairwise distinct ids, whatever the number, the
\* lengths and the adjacency of the blocks; blocks naming an unknown tool are
\* skipped and hide no later block.
C30_DetectsEveryBlock ==
    parse # <<>> /\ parse.done
        => LET known == KnownBlocks(parse.pieces, parse.tools)
               results == parse.results
           IN /\ Len(results) = Len(known)
              /\ \A i \in 1..Len(results) :
                    /\ i <= Len(known)
                          => results[i].toolName = CanonicalName(BlockBodies[known[i]].name)
                    /\ results[i].status = "pending"
              /\ \A i, j \in 1..Len(results) : i # j => results[i].id # results[j].id

-----------------------------------------------------------------------------
(* C31 *)

\* the steps before s at which a recursive call was issued
IssuedBefore(s) == {r \in 1..(s - 1) : fed[r].recursive.issued}

\* the conversation the call of step s continues: that of the recursive call
\* issued last before it, the stream's own when there is none
ConversationBefore(s) ==
    IF IssuedBefore(s) = {} THEN <<>>
    ELSE LET r == CHOOSE x \in IssuedBefore(s) : \A y \in IssuedBefore(s) : y <= x
         IN fed[r].recursive.messages

\* C31: the messages of each recursive follow-up call are the messages of the
\* conversation so far, unchanged and in their order, then one assistant
\* message with the full text of the step when that text is not empty, then
\* one user message with the formatted results of the step's tools; the
\* prompt-mode tools are passed again.
C31_AppendOnly ==
    \A s \in 1..Len(fed) :
        fed[s].recursive.issued
            => LET messages == fed[s].recursive.messages
                   before == ConversationBefore(s)
                   text == IF fed[s].text # <<>>
                           THEN <<[role |-> "assistant", content |-> fed[s].text]>>
                           ELSE <<>>
                   n == Len(before) + Len(text)
               IN /\ Len(messages) = n + 1
                  /\ SubSeq(messages, 1, Len(before)) = before
                  /\ SubSeq(messages, Len(before) + 1, n) = text
                  /\ messages[n + 1].role = "user"
                  /\ Len(messages[n + 1].content) = Len(fed[s].results)
                  /\ \A i \in 1..Len(fed[s].results) :
                        /\ messages[n + 1].content[i].toolName = fed[s].results[i].toolName
                        /\ messages[n + 1].content[i].status = fed[s].results[i].status
                  /\ fed[s].recursive.tools = ctx.mcpTools
                  /\ HasMcpTools(ctx)

-----------------------------------------------------------------------------
(* C32 *)

\* the frame was entered through context.recursiveCall of the stream transform
InRecursiveFrame == stack # <<>> /\ Top.caller = "stream"

\* C32: the tool catalogue is put into the system prompt at most once for a
\* request: in a frame entered with isRecursiveCall = true, transformParams
\* leaves the system prompt it was given as it is, and the prompt the executor
\* of that frame is called with is the one the top-level frame built, holding
\* one catalogue at every recursion depth.
C32_CatalogueOnce ==
    stack # <<>> =>
        /\ SystemOf(Top.tparams) <= 1
        /\ Top.exec.called => SystemOf(Top.exec.params) <= 1
        /\ InRecursiveFrame =>
               /\ SystemOf(Top.params.data) = 1
               /\ SystemOf(Top.tparams) = SystemOf(Top.params.data)
               /\ Top.exec.called =>
                      SystemOf(Top.exec.params) = SystemOf(Top.params.data)

C32_Witness ==
    /\ InRecursiveFrame
    /\ ctx.isRecursiveCall
    /\ nested >= 2
    /\ Top.exec.called
    /\ HasTools(Top.params.data)
    /\ SystemOf(Top.exec.params) = 1

-----------------------------------------------------------------------------
(* C33 *)

\* C33: transformParams of an enabled plugin partitions the tools it is given:
\* the tools of type 'provider', and only they, are the tools of the returned
\* params, every other tool, and only it, is in context.mcpTools, each with
\* its definition; the returned tools are undefined when no tool is of type
\* 'provider', and context.mcpTools is not written when every tool is.
C33_Partition ==
    (promptPlugin # <<>> /\ promptPlugin.enabled /\ promptPlugin.called
        /\ HasTools(promptPlugin.params)) =>
        LET incoming == promptPlugin.params["tools"].o
            returned == promptPlugin.returned
            provider == {k \in DOMAIN incoming : incoming[k] = 2}
            others == DOMAIN incoming \ provider
            mcpTools == promptPlugin.after.mcpTools
        IN /\ "tools" \in DOMAIN returned
           /\ provider # {} =>
                  /\ returned["tools"].t = "obj"
                  /\ DOMAIN returned["tools"].o = provider
                  /\ \A k \in provider : returned["tools"].o[k] = incoming[k]
           /\ provider = {} => returned["tools"] = UndefVal
           /\ others # {} =>
                  /\ mcpTools.t = "obj"
                  /\ DOMAIN mcpTools.o = others
                  /\ \A k \in others : mcpTools.o[k] = incoming[k]
           /\ others = {} => mcpTools = promptPlugin.before.mcpTools

C33_Witness ==
    /\ promptPlugin # <<>> /\ promptPlugin.enabled /\ promptPlugin.called
    /\ HasTools(promptPlugin.params)
    /\ Cardinality({k \in DOMAIN promptPlugin.params["tools"].o :
                       promptPlugin.params["tools"].o[k] = 2}) = 2
    /\ promptPlugin.before.mcpTools = UndefVal
    /\ promptPlugin.after.mcpTools.t = "obj"
    /\ DOMAIN promptPlugin.after.mcpTools.o = {"calc", "search"}

-----------------------------------------------------------------------------
(* C34 *)

\* the parts the provider has sent for step s
StepEvents(s) ==
    LET current == s = Len(fed) /\ Pipe.step = s
        sent == IF current /\ Pipe.phase = "text"
                THEN SubSeq(fed[s].text, 1, Len(fed[s].text) - Len(Pipe.rest))
                ELSE fed[s].text
        part(type) == Chunk(type, fed[s].level, s, <<>>, NoUsageGiven, "")
    IN <<part("start-step")>>
       \o (IF current /\ Pipe.phase = "open" THEN <<>>
           ELSE <<part("text-start")>>
                \o (IF sent # <<>>
                    THEN <<Chunk("text-delta", fed[s].level, s, sent, NoUsageGiven, "")>>
                    ELSE <<>>)
                \o (IF fed[s].textEnded THEN <<part("text-end")>> ELSE <<>>)
                \o (IF fed[s].finished
                    THEN <<Chunk("finish-step", fed[s].level, s, <<>>, fed[s].usage, "stop")>>
                    ELSE <<>>))

RECURSIVE StepsEvents(_)
StepsEvents(s) == IF s = 0 THEN <<>> ELSE StepsEvents(s - 1) \o StepEvents(s)

\* the parts the provider of the top-level stream has sent so far
ProviderEvents ==
    (IF Pipe.phase = "start" THEN <<>>
     ELSE <<Chunk("start", 1, 0, <<>>, NoUsageGiven, "")>>)
    \o StepsEvents(Len(fed))
    \o (IF Pipe.phase = "ended"
        THEN <<Chunk("finish", 1, Len(fed), <<>>, NoUsageGiven, "stop")>>
        ELSE <<>>)

DisabledPlugin == promptPlugin # <<>> /\ ~promptPlugin.enabled

\* C34: a plugin created with enabled = false is inert: transformParams
\* returns the params it was given and leaves the context as it was, and the
\* parts that leave its stream transform are the parts the provider sent, in
\* number, order and content, in every state of the request context.
C34_DisabledIsInert ==
    DisabledPlugin =>
        /\ promptPlugin.called =>
               /\ promptPlugin.returned = promptPlugin.params
               /\ promptPlugin.after = promptPlugin.before
        /\ pipes # <<>> => out = ProviderEvents

\* the same for the contexts in which no prompt tool was set
C34_InertWithoutMcpTools ==
    (DisabledPlugin /\ ctx.mcpTools.t # "obj") =>
        /\ promptPlugin.called =>
               /\ promptPlugin.returned = promptPlugin.params
               /\ promptPlugin.after = promptPlugin.before
        /\ pipes # <<>> => out = ProviderEvents

C34_DisabledTransformParams ==
    (DisabledPlugin /\ promptPlugin.called) =>
        /\ promptPlugin.returned = promptPlugin.params
        /\ promptPlugin.after = promptPlugin.before

-----------------------------------------------------------------------------
(* C35 *)

NoCallRunning(h) == \A j \in 1..Len(h.hooks) : h.hooks[j].st = "idle"

\* C35: a recursive call leaves the binding of context.recursiveCall as it
\* was: when a hook of a frame with the params P calls
\* context.recursiveCall(o) while no other call of the frame is running,
\* after earlier calls have settled or not, the nested frame is entered with
\* P merged with o.
C35_BindingKept ==
    [][\A i \in 1..MaxHooks :
          (/\ hookCalls # <<>>
           /\ i <= Len(hookCalls.hooks)
           /\ NoCallRunning(hookCalls)
           /\ hookCalls'.hooks[i].st = "running")
              => hookCalls'.hooks[i].params
                    = MergeParams(hookCalls.params, HookOverrideOf(i))]_vars

\* the same for the first call of a frame
C35_FirstCall ==
    [][\A i \in 1..MaxHooks :
          (/\ hookCalls # <<>>
           /\ i <= Len(hookCalls.hooks)
           /\ \A j \in 1..Len(hookCalls.hooks) : hookCalls.hooks[j].calls = 0
           /\ hookCalls'.hooks[i].st = "running")
              => hookCalls'.hooks[i].params
                    = MergeParams(hookCalls.params, HookOverrideOf(i))]_vars

-----------------------------------------------------------------------------
(* C36 *)

\* step 2.5 of the frame is over: the model was wrapped, or left as it was
PastMiddlewares(f) == EventsAt(f, "phase", "transformParams") # {}

\* the middlewares the configureContext hooks of the plugins push, in order
ConfiguredMiddlewares ==
    LET with == SelectSeq(Sorted, LAMBDA p : "configureContext" \in p.hooks /\ p.mw # "")
    IN [k \in 1..Len(with) |-> with[k].mw]

\* C36: the middlewares a model is wrapped with do not depend on the recursion
\* depth: in every frame of a chain of recursive calls context.middlewares
\* holds, after configureContext, each middleware the configureContext hooks
\* register exactly once, and the model of a nested frame is wrapped with the
\* middlewares the model of the top-level frame is wrapped with.
C36_MiddlewaresByDepth ==
    LET configured == ConfiguredMiddlewares
    IN \A i \in FrameIdx :
          PastMiddlewares(stack[i]) =>
              /\ stack[i].mwAfterConfigure = configured
              /\ PastMiddlewares(stack[1]) =>
                     stack[i].resolvedModel.mw = stack[1].resolvedModel.mw

\* the same for the top-level frame alone
C36_TopLevelFrame ==
    (stack # <<>> /\ PastMiddlewares(stack[1])) =>
        stack[1].mwAfterConfigure = ConfiguredMiddlewares

-----------------------------------------------------------------------------
(* C37 *)

\* the nested frame of a hook's recursive call rethrows into the frame of
\* that hook
NestedFrameRethrows ==
    /\ Settled
    /\ Top.caller = "hook"
    /\ Top.pc = "thrown"
    /\ Len(stack') = Len(stack) - 1

\* C37: an error that leaves a nested recursive frame and is not caught on
\* its way to the top-level caller reaches the onError hook of each plugin
\* once for the request: a plugin whose onError hook the nested frame has
\* invoked is not invoked again by the frame the error propagates into, and
\* that frame fails with the same error.
C37_OnErrorOnce ==
    [][NestedFrameRethrows =>
          LET g == Top
              parent == stack'[Len(stack')]
          IN /\ Called(g, "onError") \cap Called(parent, "onError") = {}
             /\ parent.err = g.err]_vars

\* the frame the error propagates into fails with the error of the nested frame
C37_SameError ==
    [][NestedFrameRethrows => stack'[Len(stack')].err = Top.err]_vars

-----------------------------------------------------------------------------
(* C38 *)

ToolNames(toolUses) == [k \in 1..Len(toolUses) |-> toolUses[k].toolName]

\* C38: in a stream each tool-use block is executed at most once: the tools
\* run at the finish-step of a step are those of the blocks of the text of
\* that step, the blocks of the text of an earlier step, already executed,
\* not being parsed and executed again; and hasExecutedToolsInCurrentStep is
\* false when a step starts.
C38_ExecutedOnce ==
    /\ \A s \in 1..Len(fed) :
           fed[s].finished
              => ToolNames(fed[s].results)
                    = ToolNames(ValidToolUses(fed[s].text, ctx.mcpTools))
    /\ (pipes # <<>> /\ Pipe.phase = "open") => ~ctx.hasExecutedToolsInCurrentStep

\* the flag is false when a step starts
C38_FlagAtStepStart ==
    (pipes # <<>> /\ Pipe.phase = "open") => ~ctx.hasExecutedToolsInCurrentStep

\* the same for the first step of each stream
C38_FirstStep ==
    \A s \in 1..Len(fed) :
        (fed[s].finished /\ \A r \in 1..(s - 1) : fed[r].level # fed[s].level)
           => ToolNames(fed[s].results)
                 = ToolNames(ValidToolUses(fed[s].text, ctx.mcpTools))

-----------------------------------------------------------------------------
(* C39 *)

\* a call of the executor with a string model id has resolved its model
CalledWithModelId(kinds) ==
    /\ outcome.st = "called"
    /\ outcome.kind \in kinds
    /\ outcome.model.kind = "string"

\* C39: on one executor, whatever calls came before, the model id of a
\* generateImage call is not resolved by the language-model resolver plugin
\* an earlier generateText or streamText call registered, and the model id
\* of a generateText or streamText call is not resolved by the image-model
\* resolver plugin an earlier generateImage call registered: the internal
\* resolver that resolves a call is the one of its kind.
C39_ResolverOfItsKind ==
    /\ CalledWithModelId({"generateImage"})
           => outcome.resolved.by # InternalResolveModelPlugin.name
    /\ CalledWithModelId({"generateText", "streamText"})
           => outcome.resolved.by # InternalResolveImageModelPlugin.name

\* the same for the first call on an executor without plugins of its own
C39_FirstCall ==
    [][(basePlugins = <<>> /\ outcome' # outcome /\ outcome'.model.kind = "string")
          => outcome'.resolved.by = IF outcome'.kind = "generateImage"
                                    THEN InternalResolveImageModelPlugin.name
                                    ELSE InternalResolveModelPlugin.name]_vars

-----------------------------------------------------------------------------
(* C40 *)

\* the frame has settled after it invoked the onRequestStart hooks
SettledAfterStart(f) ==
    /\ f.pc \in {"done", "thrown"}
    /\ EventsAt(f, "phase", "onRequestStart") # {}

\* the frame has invoked the onRequestEnd hooks of all plugins and no
\* onError hook, or the onError hooks of all plugins and no onRequestEnd hook
ClosedOnce(f) ==
    \/ /\ f.pc = "done"
       /\ Called(f, "onRequestEnd") = WithHook("onRequestEnd")
       /\ Called(f, "onError") = {}
    \/ /\ f.pc = "thrown"
       /\ Called(f, "onError") = WithHook("onError")
       /\ Called(f, "onRequestEnd") = {}

\* C40: a frame that has invoked the onRequestStart hooks invokes, before it
\* settles, exactly one of the two closing hook sets: the onRequestEnd hooks
\* of all plugins when it returns, or the onError hooks of all plugins when
\* it throws, also when the result or the thrown value is undefined.
C40_ClosingHooks ==
    \A i \in FrameIdx : SettledAfterStart(stack[i]) => ClosedOnce(stack[i])

\* the same for the frames that return a result that is not undefined or
\* fail, before onRequestEnd, with an error that is not undefined, no hook
\* throwing while the closing hooks are invoked
C40_DefinedValues ==
    \A i \in FrameIdx :
        LET f == stack[i]
        IN (/\ SettledAfterStart(f)
            /\ f.pc = "done" => f.endArg.def
            /\ f.pc = "thrown" => /\ f.caught # UndefinedError
                                  /\ f.failedAt # "onRequestEnd"
                                  /\ f.orphans = {}
                                  /\ Called(f, "onError") = Returned(f, "onError"))
              => ClosedOnce(f)
====
